---------------------------- MODULE Spec2Model ----------------------------
(***************************************************************************)
(* A model of the pzsh core pipeline: the configuration compiler           *)
(* (src/src/config/mod.rs), the cached parser (src/src/parser/mod.rs),     *)
(* the executor (src/src/executor/mod.rs), the prompt renderer             *)
(* (src/src/prompt/mod.rs), the shell instance (src/src/lib.rs) and the    *)
(* plugin manager (src/src/plugin/mod.rs).                                 *)
(*                                                                         *)
(* Text is modelled by TLA+ strings; Len, SubSeq and \o act on them        *)
(* character by character.  A hash map is a function whose domain is its   *)
(* key set; the empty map is <<>>.  A Result is a record with a tag.       *)
(***************************************************************************)
EXTENDS Integers, Sequences, FiniteSets, TLC

VARIABLES
    cfgInput,    \* the argument handed to the configuration compiler
    cfgResult,   \* what from_toml / compile returned for it
    parser,      \* Parser { cache, aliases, builtins }
    parserCfg,   \* the CompiledConfig the parser was built from
    last,        \* the most recent Parser call and what it returned
    log,         \* the most recent earlier calls, oldest first
    touched,     \* texts parsed successfully since the last clear_cache, least recent first
    feed,        \* the input lines this session hands to the parser
    window,      \* how many earlier calls log keeps
    executor,    \* Executor { env, aliases, initialized }
    execCfg,     \* the CompiledConfig the executor was built from
    execLast,    \* the most recent Executor call and what it returned
    prompt,      \* Prompt { segments, git_cache, user, host }
    promptCfg,   \* the CompiledConfig the prompt was built from
    procEnv,     \* what the process reads: USER, PWD, host name, working directory
    promptLast,  \* the most recent step on the prompt and what it returned
    gitUpdate,   \* the arguments of the most recent update_git_cache, if any
    gitInvalidated, \* invalidate_git_cache was called since then, or since construction
    rendered,    \* the first prompt rendered since the last update or change of
                 \* directory, and whether another was rendered since
    shellLast,   \* the most recent call of Pzsh::new or of an accessor of the compiled
                 \* configuration, and what it returned
    updater,     \* where the updater stands inside update_git_cache, and its arguments
    manager,     \* PluginManager { plugins, states, load_order }
    pluginLast   \* the most recent PluginManager call and what it returned

cfgVars == <<cfgInput, cfgResult>>
parserVars == <<parser, parserCfg, last, log, touched, feed, window>>
execVars == <<executor, execCfg, execLast>>
promptVars == <<prompt, promptCfg, procEnv, promptLast, gitUpdate, gitInvalidated, rendered>>
pluginVars == <<manager, pluginLast>>
vars == <<cfgInput, cfgResult, parser, parserCfg, last, log, touched, feed, window,
          executor, execCfg, execLast,
          prompt, promptCfg, procEnv, promptLast, gitUpdate, gitInvalidated, rendered, shellLast,
          updater, manager, pluginLast>>

(***************************************************************************)
(* Generic helpers.                                                        *)
(***************************************************************************)

\* The maps with keys among K and values among V.
PartialMaps(K, V) == UNION {[S -> V] : S \in SUBSET K}

\* The sequences that list every element of S exactly once.
Orders(S) == {o \in [1..Cardinality(S) -> S] : \A i, j \in 1..Cardinality(S) : o[i] = o[j] => i = j}

\* str::contains: pat occurs in s as a contiguous substring.
Contains(s, pat) ==
    \E i \in 1..(Len(s) - Len(pat) + 1) : SubSeq(s, i, i + Len(pat) - 1) = pat

Min(a, b) == IF a < b THEN a ELSE b

\* The character U+0060.  The lexer reads a backtick inside a string literal
\* only when a quote follows it, so the character is cut out of such a literal.
Backtick == SubSeq("`'", 1, 1)

(***************************************************************************)
(* Configuration: defaults.                                                *)
(***************************************************************************)

default_version == "0.1.0"

default_startup_budget == 10

default_prompt_budget == 2

default_lazy_load == TRUE

default_prompt_format == "{user}@{host} {cwd} {git} {char}"

default_true == TRUE

default_git_cache_ms == 1000

\* #[derive(Default)] on PzshSection: String::default() and the #[default] variant.
PzshSectionDefault == [version |-> "", shell |-> "zsh"]

\* impl Default for PerformanceSection.
PerformanceSectionDefault ==
    [startup_budget_ms |-> default_startup_budget,
     prompt_budget_ms |-> default_prompt_budget,
     lazy_load |-> default_lazy_load]

\* #[derive(Default)] on PromptSection: every field takes its type's default.
PromptSectionDefault == [format |-> "", git_async |-> FALSE, git_cache_ms |-> 0]

\* #[derive(Default)] on PluginsSection.
PluginsSectionDefault == [enabled |-> <<>>, lazy |-> <<>>]

\* impl Default for SourceConfig.
SourceConfigDefault ==
    [pzsh |-> PzshSectionDefault,
     performance |-> PerformanceSectionDefault,
     prompt |-> PromptSectionDefault,
     aliases |-> <<>>,
     env |-> <<>>,
     plugins |-> PluginsSectionDefault]

\* impl Default for CompiledConfig.
CompiledConfigDefault ==
    [shell_type |-> "Zsh",
     startup_budget_ms |-> 10,
     prompt_budget_ms |-> 2,
     lazy_load |-> TRUE,
     prompt_format |-> default_prompt_format,
     git_async |-> TRUE,
     git_cache_ms |-> 1000,
     aliases |-> <<>>,
     env |-> <<>>,
     plugins_enabled |-> <<>>,
     plugins_lazy |-> <<>>]

(***************************************************************************)
(* Configuration: deserialization of a document.  A TOML value carries its *)
(* type: a string, an integer (an i64), a float (kept as its text), a      *)
(* boolean, an array (a sequence of values) or a table (a map from keys to *)
(* values); date-times are left out.  A document is the content of its     *)
(* root table: a map from the top-level keys it holds to their values.     *)
(***************************************************************************)

Toml(type, value) == [type |-> type, value |-> value]

\* ConfigError::Parse, the toml::de::Error it wraps left out.
ParseError == [tag |-> "Err", error |-> "Parse"]

Ok(v) == [tag |-> "Ok", value |-> v]

\* String: a TOML string and nothing else.
DeserString(v) == IF v.type = "string" THEN Ok(v.value) ELSE ParseError

\* u64: a TOML integer that is not negative (an i64 never exceeds u64::MAX).
DeserU64(v) == IF v.type = "integer" /\ v.value >= 0 THEN Ok(v.value) ELSE ParseError

\* bool: a TOML boolean and nothing else.
DeserBool(v) == IF v.type = "boolean" THEN Ok(v.value) ELSE ParseError

\* Vec<String>: an array whose elements are all strings.
DeserVecString(v) ==
    IF v.type = "array" /\ \A i \in 1..Len(v.value) : v.value[i].type = "string"
    THEN Ok([i \in 1..Len(v.value) |-> v.value[i].value])
    ELSE ParseError

\* AHashMap<String, String>: a table whose values are all strings.
DeserStringMap(v) ==
    IF v.type = "table" /\ \A k \in DOMAIN v.value : v.value[k].type = "string"
    THEN Ok([k \in DOMAIN v.value |-> v.value[k].value])
    ELSE ParseError

\* #[serde(rename_all = "lowercase")] enum ShellTypeConfig { Zsh, Bash }.
ShellNames == {"zsh", "bash"}

\* ShellTypeConfig: the name of a variant as a string, or a table whose single
\* key is the name of a variant and holds an empty table or an empty array.
DeserShell(v) ==
    IF v.type = "string"
    THEN IF v.value \in ShellNames THEN Ok(v.value) ELSE ParseError
    ELSE IF /\ v.type = "table"
            /\ Cardinality(DOMAIN v.value) = 1
            /\ \A k \in DOMAIN v.value :
                 /\ k \in ShellNames
                 /\ v.value[k].type \in {"table", "array"}
                 /\ DOMAIN v.value[k].value = {}
    THEN Ok(CHOOSE k \in DOMAIN v.value : TRUE)
    ELSE ParseError

\* The deserializer of a field, by the Rust type of the field.
DeserField(type, v) ==
    CASE type = "String" -> DeserString(v)
      [] type = "u64" -> DeserU64(v)
      [] type = "bool" -> DeserBool(v)
      [] type = "Vec<String>" -> DeserVecString(v)
      [] type = "ShellTypeConfig" -> DeserShell(v)

\* A field of a present section: a table gives it by name, an array by position;
\* a field that is not given takes its serde default.
Field(v, name, pos, type, dflt) ==
    IF v.type = "table"
    THEN IF name \in DOMAIN v.value THEN DeserField(type, v.value[name]) ELSE Ok(dflt)
    ELSE IF pos <= Len(v.value) THEN DeserField(type, v.value[pos]) ELSE Ok(dflt)

\* The types a struct is deserialized from.
StructTypes == {"table", "array"}

DeserPzsh(v) ==
    IF v.type \notin StructTypes THEN ParseError
    ELSE LET version == Field(v, "version", 1, "String", default_version)
             shell == Field(v, "shell", 2, "ShellTypeConfig", "zsh")
         IN IF version.tag = "Err" \/ shell.tag = "Err" THEN ParseError
            ELSE Ok([version |-> version.value, shell |-> shell.value])

DeserPerformance(v) ==
    IF v.type \notin StructTypes THEN ParseError
    ELSE LET startup == Field(v, "startup_budget_ms", 1, "u64", default_startup_budget)
             promptBudget == Field(v, "prompt_budget_ms", 2, "u64", default_prompt_budget)
             lazy == Field(v, "lazy_load", 3, "bool", default_lazy_load)
         IN IF startup.tag = "Err" \/ promptBudget.tag = "Err" \/ lazy.tag = "Err" THEN ParseError
            ELSE Ok([startup_budget_ms |-> startup.value,
                     prompt_budget_ms |-> promptBudget.value,
                     lazy_load |-> lazy.value])

DeserPrompt(v) ==
    IF v.type \notin StructTypes THEN ParseError
    ELSE LET format == Field(v, "format", 1, "String", default_prompt_format)
             gitAsync == Field(v, "git_async", 2, "bool", default_true)
             gitCache == Field(v, "git_cache_ms", 3, "u64", default_git_cache_ms)
         IN IF format.tag = "Err" \/ gitAsync.tag = "Err" \/ gitCache.tag = "Err" THEN ParseError
            ELSE Ok([format |-> format.value,
                     git_async |-> gitAsync.value,
                     git_cache_ms |-> gitCache.value])

DeserPlugins(v) ==
    IF v.type \notin StructTypes THEN ParseError
    ELSE LET enabled == Field(v, "enabled", 1, "Vec<String>", <<>>)
             lazy == Field(v, "lazy", 2, "Vec<String>", <<>>)
         IN IF enabled.tag = "Err" \/ lazy.tag = "Err" THEN ParseError
            ELSE Ok([enabled |-> enabled.value, lazy |-> lazy.value])

\* The deserializer of a field of SourceConfig, by the Rust type of the field.
DeserSection(type, v) ==
    CASE type = "PzshSection" -> DeserPzsh(v)
      [] type = "PerformanceSection" -> DeserPerformance(v)
      [] type = "PromptSection" -> DeserPrompt(v)
      [] type = "PluginsSection" -> DeserPlugins(v)
      [] type = "AHashMap<String, String>" -> DeserStringMap(v)

\* A #[serde(default)] field of SourceConfig: the deserialized value of the key
\* if the document holds it, else the Default of the field's type.
Section(doc, name, type, dflt) ==
    IF name \in DOMAIN doc THEN DeserSection(type, doc[name]) ELSE Ok(dflt)

\* toml::from_str::<SourceConfig>: a missing section takes the section type's
\* Default, a missing field of a present section takes the field's serde default,
\* keys that name no field are skipped, and a value of the wrong type anywhere
\* in a field of SourceConfig fails the whole document.
Deserialize(doc) ==
    LET pzsh == Section(doc, "pzsh", "PzshSection", PzshSectionDefault)
        performance == Section(doc, "performance", "PerformanceSection", PerformanceSectionDefault)
        promptSec == Section(doc, "prompt", "PromptSection", PromptSectionDefault)
        aliases == Section(doc, "aliases", "AHashMap<String, String>", <<>>)
        env == Section(doc, "env", "AHashMap<String, String>", <<>>)
        plugins == Section(doc, "plugins", "PluginsSection", PluginsSectionDefault)
    IN IF \/ pzsh.tag = "Err" \/ performance.tag = "Err" \/ promptSec.tag = "Err"
          \/ aliases.tag = "Err" \/ env.tag = "Err" \/ plugins.tag = "Err"
       THEN ParseError
       ELSE [tag |-> "Ok",
             source |->
               [pzsh |-> pzsh.value,
                performance |-> performance.value,
                prompt |-> promptSec.value,
                aliases |-> aliases.value,
                env |-> env.value,
                plugins |-> plugins.value]]

(***************************************************************************)
(* Configuration: the compiler.                                            *)
(***************************************************************************)

OkUnit == [tag |-> "Ok"]

ForbiddenPattern(msg) == [tag |-> "Err", error |-> "ForbiddenPattern", msg |-> msg]

\* check_forbidden_patterns without its third test.
check_forbidden_patterns_noeval(key, value) ==
    IF Contains(value, "$(") \/ Contains(value, Backtick)
    THEN ForbiddenPattern("subprocess call $() or backticks not allowed at startup")
    ELSE IF Contains(value, "brew --prefix")
    THEN ForbiddenPattern("brew --prefix is slow; use hardcoded path")
    ELSE OkUnit

check_forbidden_patterns(key, value) ==
    IF Contains(value, "$(") \/ Contains(value, Backtick)
    THEN ForbiddenPattern("subprocess call $() or backticks not allowed at startup")
    ELSE IF Contains(value, "brew --prefix")
    THEN ForbiddenPattern("brew --prefix is slow; use hardcoded path")
    ELSE IF Contains(value, "eval ")
    THEN ForbiddenPattern("eval not allowed for safety")
    ELSE OkUnit

\* for (key, value) in &map { check_forbidden_patterns(key, value)?; }
\* with the map iterated in the order given.
RECURSIVE CheckEntries(_, _)
CheckEntries(map, order) ==
    IF order = <<>> THEN OkUnit
    ELSE LET r == check_forbidden_patterns(Head(order), map[Head(order)])
         IN IF r.tag = "Err" THEN r ELSE CheckEntries(map, Tail(order))

ShellTypeOf(shell) == IF shell = "bash" THEN "Bash" ELSE "Zsh"

\* CompiledConfig::compile, the two hash maps iterated in the orders given.
compile(source, envOrder, aliasOrder) ==
    LET e == CheckEntries(source.env, envOrder)
        a == CheckEntries(source.aliases, aliasOrder)
    IN IF e.tag = "Err" THEN e
       ELSE IF a.tag = "Err" THEN a
       ELSE [tag |-> "Ok",
             config |->
               [shell_type |-> ShellTypeOf(source.pzsh.shell),
                startup_budget_ms |-> source.performance.startup_budget_ms,
                prompt_budget_ms |-> source.performance.prompt_budget_ms,
                lazy_load |-> source.performance.lazy_load,
                prompt_format |-> source.prompt.format,
                git_async |-> source.prompt.git_async,
                git_cache_ms |-> source.prompt.git_cache_ms,
                aliases |-> source.aliases,
                env |-> source.env,
                plugins_enabled |-> source.plugins.enabled,
                plugins_lazy |-> source.plugins.lazy]]

\* CompiledConfig::get_alias.
CompiledConfig_get_alias(config, name) ==
    IF name \in DOMAIN config.aliases
    THEN [tag |-> "Some", value |-> config.aliases[name]]
    ELSE [tag |-> "None"]

\* CompiledConfig::get_env.
CompiledConfig_get_env(config, name) ==
    IF name \in DOMAIN config.env
    THEN [tag |-> "Some", value |-> config.env[name]]
    ELSE [tag |-> "None"]

\* CompiledConfig::from_toml.
from_toml(doc, envOrder, aliasOrder) ==
    LET d == Deserialize(doc)
    IN IF d.tag = "Err" THEN d ELSE compile(d.source, envOrder, aliasOrder)

(***************************************************************************)
(* Configuration: the inputs the compiler is run on.                       *)
(***************************************************************************)

\* Alias expansions and environment values: harmless ones, one per forbidden
\* fragment, and near misses of each fragment.
CfgValues ==
    {"ls -la", "vim",
     "$(date)", Backtick \o "date" \o Backtick, "brew --prefix", "eval $X", "medieval x",
     "$ (x)", "brew  --prefix", "eval"}

CfgAliasNames == {"ll", "gs"}

CfgEnvNames == {"EDITOR", "PATH"}

\* SourceConfig values handed to compile directly.
CfgSources ==
    {[SourceConfigDefault EXCEPT !.aliases = a, !.env = e] :
        a \in PartialMaps(CfgAliasNames, CfgValues), e \in PartialMaps(CfgEnvNames, CfgValues)}

\* A key that may be absent: no entry, or the entry name -> value.
OptSection(name, values) == {<<>>} \cup {(name :> v) : v \in values}

\* The tables whose contents are given.
Tables(contents) == {Toml("table", t) : t \in contents}

\* The table that holds the strings of a map, and the array that holds the
\* strings of a sequence.
StringTable(map) == Toml("table", [k \in DOMAIN map |-> Toml("string", map[k])])

StringArray(seq) == Toml("array", [i \in 1..Len(seq) |-> Toml("string", seq[i])])

\* The tables over the given fields, each field absent or holding its sample value.
PzshTables ==
    Tables({<<>>,
            [shell |-> Toml("string", "bash")],
            [version |-> Toml("string", "0.2.0"), shell |-> Toml("string", "zsh")]})

PerformanceTables ==
    Tables({a @@ b @@ c : a \in OptSection("startup_budget_ms", {Toml("integer", 5)}),
                          b \in OptSection("prompt_budget_ms", {Toml("integer", 1)}),
                          c \in OptSection("lazy_load", {Toml("boolean", FALSE)})})

PromptTables ==
    Tables({a @@ b @@ c : a \in OptSection("format", {Toml("string", "{user}@{host}")}),
                          b \in OptSection("git_async", {Toml("boolean", FALSE)}),
                          c \in OptSection("git_cache_ms", {Toml("integer", 500)})})

AliasTables ==
    {StringTable(<<>>), StringTable([ll |-> "ls -la", gs |-> "git status"]),
     StringTable([dangerous |-> "eval $SOME_VAR"])}

EnvTables ==
    {StringTable(<<>>), StringTable([EDITOR |-> "vim"]),
     StringTable([GOROOT |-> "$(brew --prefix golang)/libexec"])}

PluginsTables ==
    Tables({[enabled |-> StringArray(<<"git", "docker">>), lazy |-> StringArray(<<"kubectl">>)]})

\* Documents every value of which has the type of the field it is given to:
\* every combination of absent sections and of absent fields inside the
\* sections that have fallbacks; <<>> is the empty document.
TypedDocs ==
    {a @@ b @@ c @@ d @@ e @@ f :
        a \in OptSection("pzsh", PzshTables),
        b \in OptSection("performance", PerformanceTables),
        c \in OptSection("prompt", PromptTables),
        d \in OptSection("aliases", AliasTables),
        e \in OptSection("env", EnvTables),
        f \in OptSection("plugins", PluginsTables)}

\* Values of [pzsh] that are not a table of a string and a variant name, next to
\* the two other ways of writing Bash: by position, and as a table variant.
OddPzsh ==
    {Toml("table", [shell |-> Toml("string", "fish")]),
     Toml("table", [version |-> Toml("integer", 1)]),
     Toml("table", [shell |-> Toml("integer", 1)]),
     Toml("table", [shell |-> Toml("table", [bash |-> Toml("table", <<>>)])]),
     Toml("table", [shell |-> Toml("table", [bash |-> Toml("integer", 1)])]),
     Toml("table", [shell |-> Toml("table", [fish |-> Toml("table", <<>>)])]),
     Toml("table", [shell |-> Toml("table", <<>>)]),
     Toml("table", [name |-> Toml("integer", 1)]),
     Toml("array", <<Toml("string", "0.2.0"), Toml("string", "bash")>>),
     Toml("array", <<Toml("string", "0.2.0"), Toml("string", "fish")>>),
     Toml("integer", 1)}

\* Values of [performance] with a field of the wrong type or out of range.
OddPerformance ==
    {Toml("table", [startup_budget_ms |-> Toml("integer", -1)]),
     Toml("table", [startup_budget_ms |-> Toml("string", "10")]),
     Toml("table", [startup_budget_ms |-> Toml("float", "1.5")]),
     Toml("table", [startup_budget_ms |-> Toml("integer", 0)]),
     Toml("table", [prompt_budget_ms |-> Toml("boolean", TRUE)]),
     Toml("table", [lazy_load |-> Toml("string", "yes")]),
     Toml("table", [lazy_load |-> Toml("integer", 1)]),
     Toml("array", <<Toml("integer", 7)>>),
     Toml("string", "fast")}

\* Values of [prompt] with a field of the wrong type or out of range.
OddPrompt ==
    {Toml("table", [format |-> Toml("integer", 1)]),
     Toml("table", [git_async |-> Toml("string", "no")]),
     Toml("table", [git_cache_ms |-> Toml("integer", -5)]),
     Toml("table", [git_cache_ms |-> Toml("string", "500")]),
     Toml("boolean", TRUE)}

\* Values of [aliases] and [env] that are not tables of strings.
OddMaps ==
    {Toml("table", [ll |-> Toml("integer", 1)]),
     Toml("table", [ll |-> Toml("string", "ls -la"), gs |-> Toml("boolean", TRUE)]),
     Toml("table", [ll |-> StringArray(<<"ls", "-la">>)]),
     StringArray(<<"ll">>),
     Toml("string", "ll")}

\* Values of [plugins] with a field that is not an array of strings.
OddPlugins ==
    {Toml("table", [enabled |-> Toml("string", "git")]),
     Toml("table", [enabled |-> Toml("array", <<Toml("string", "git"), Toml("integer", 1)>>)]),
     Toml("table", [lazy |-> Toml("table", <<>>)]),
     Toml("table", [enabled |-> StringArray(<<>>)]),
     Toml("array", <<StringArray(<<"git">>)>>),
     Toml("integer", 0)}

\* What the odd documents hold next to their odd section: nothing, or aliases one
\* of which the compiler refuses.
OddRest ==
    {<<>>, "aliases" :> StringTable([dangerous |-> "eval $SOME_VAR", ll |-> "ls -la"])}

\* Documents with one section out of the ordinary, and a document that holds a
\* key naming no section.
OddDocs ==
    {("pzsh" :> v) @@ r : v \in OddPzsh, r \in OddRest}
    \cup {("performance" :> v) @@ r : v \in OddPerformance, r \in OddRest}
    \cup {("prompt" :> v) @@ r : v \in OddPrompt, r \in OddRest}
    \cup {("aliases" :> v) : v \in OddMaps}
    \cup {("env" :> v) @@ r : v \in OddMaps, r \in OddRest}
    \cup {("plugins" :> v) @@ r : v \in OddPlugins, r \in OddRest}
    \cup {("theme" :> Toml("string", "dark")) @@ r : r \in OddRest}

\* Documents handed to from_toml.
CfgDocs == TypedDocs \cup OddDocs

CfgInputs ==
    {[kind |-> "source", source |-> s] : s \in CfgSources}
    \cup {[kind |-> "toml", doc |-> d] : d \in CfgDocs}

Pending == [tag |-> "Pending"]

(***************************************************************************)
(* Configuration: actions.                                                 *)
(***************************************************************************)

\* A call CompiledConfig::compile(source).
Compile ==
    /\ cfgInput.kind = "source"
    /\ cfgResult = Pending
    /\ \E eo \in Orders(DOMAIN cfgInput.source.env), ao \in Orders(DOMAIN cfgInput.source.aliases) :
          cfgResult' = compile(cfgInput.source, eo, ao)
    /\ UNCHANGED <<cfgInput, parserVars, execVars, promptVars, shellLast, updater, pluginVars>>

\* A call CompiledConfig::from_toml(content).
FromToml ==
    /\ cfgInput.kind = "toml"
    /\ cfgResult = Pending
    /\ LET d == Deserialize(cfgInput.doc)
           env == IF d.tag = "Ok" THEN d.source.env ELSE <<>>
           aliases == IF d.tag = "Ok" THEN d.source.aliases ELSE <<>>
       IN \E eo \in Orders(DOMAIN env), ao \in Orders(DOMAIN aliases) :
             cfgResult' = from_toml(cfgInput.doc, eo, ao)
    /\ UNCHANGED <<cfgInput, parserVars, execVars, promptVars, shellLast, updater, pluginVars>>

(***************************************************************************)
(* Budgets.  Elapsed time is counted in microseconds.                      *)
(***************************************************************************)

MAX_STARTUP_MS == 10

MAX_PROMPT_MS == 2

MAX_PARSER_MS == 2

MAX_EXECUTOR_MS == 2

MicrosPerMilli == 1000

\* Duration::from_millis(ms), in microseconds.
from_millis(ms) == ms * MicrosPerMilli

\* Milliseconds rounded to the nearest whole number.
as_millis_rounded(elapsed) == (elapsed + MicrosPerMilli \div 2) \div MicrosPerMilli

\* Duration::as_millis(): whole milliseconds, the remainder dropped.
as_millis(elapsed) == elapsed \div MicrosPerMilli

ParserBudgetExceeded(budget, actual) ==
    [tag |-> "Err", error |-> "ParserBudgetExceeded", budget_ms |-> budget, actual_ms |-> actual]

ExecutorBudgetExceeded(budget, actual) ==
    [tag |-> "Err", error |-> "ExecutorBudgetExceeded", budget_ms |-> budget, actual_ms |-> actual]

StartupBudgetExceeded(budget, actual) ==
    [tag |-> "Err", error |-> "StartupBudgetExceeded", budget_ms |-> budget, actual_ms |-> actual]

PromptBudgetExceeded(budget, actual) ==
    [tag |-> "Err", error |-> "PromptBudgetExceeded", budget_ms |-> budget, actual_ms |-> actual]

(***************************************************************************)
(* The LRU cache (lru::LruCache): its capacity and its entries, the least  *)
(* recently used first and the most recently used last.                    *)
(***************************************************************************)

CacheCapacity == 1024

LruNew(cap) == [cap |-> cap, entries |-> <<>>]

LruLen(c) == Len(c.entries)

LruKeys(c) == {c.entries[i].key : i \in 1..Len(c.entries)}

LruContains(c, k) == \E i \in 1..Len(c.entries) : c.entries[i].key = k

LruIndex(c, k) == CHOOSE i \in 1..Len(c.entries) : c.entries[i].key = k

\* The value stored for a key that is present.
LruValue(c, k) == c.entries[LruIndex(c, k)].value

\* The entries without the one at position i.
DropAt(entries, i) == SubSeq(entries, 1, i - 1) \o SubSeq(entries, i + 1, Len(entries))

\* A get that leaves the order of the entries alone.
LruGet_nopromote(c, k) == c

\* The cache after LruCache::get(k): a present key becomes the most recently used.
LruGet(c, k) ==
    IF LruContains(c, k)
    THEN LET i == LruIndex(c, k)
         IN [c EXCEPT !.entries = Append(DropAt(c.entries, i), c.entries[i])]
    ELSE c

\* A put that never removes an entry.
LruPut_noevict(c, k, v) ==
    LET e == [key |-> k, value |-> v]
    IN IF LruContains(c, k)
       THEN [c EXCEPT !.entries = Append(DropAt(c.entries, LruIndex(c, k)), e)]
       ELSE [c EXCEPT !.entries = Append(c.entries, e)]

\* The cache after LruCache::put(k, v): a present key is overwritten and becomes the
\* most recently used; a new key in a full cache takes the place of the least
\* recently used entry.
LruPut(c, k, v) ==
    LET e == [key |-> k, value |-> v]
    IN IF LruContains(c, k)
       THEN [c EXCEPT !.entries = Append(DropAt(c.entries, LruIndex(c, k)), e)]
       ELSE IF Len(c.entries) >= c.cap
       THEN [c EXCEPT !.entries = Append(Tail(c.entries), e)]
       ELSE [c EXCEPT !.entries = Append(c.entries, e)]

\* The cache after LruCache::clear().
LruClear(c) == [c EXCEPT !.entries = <<>>]

(***************************************************************************)
(* The parser.                                                             *)
(***************************************************************************)

Builtins ==
    {"cd", "exit", "export", "source", "alias", "unalias", "set", "unset", "echo", "printf",
     "test", "[", "true", "false", "pwd", "pushd", "popd", "dirs", "history", "fg", "bg",
     "jobs", "kill", "wait", "trap", "eval", "exec", "builtin", "command", "type", "which",
     "hash", "help", "let", "local", "readonly", "return", "shift", "times", "ulimit",
     "umask"}

\* White space characters that have no escape sequence; each literal holds the
\* one character itself: U+000B, U+0085, U+00A0 and U+1680.
VerticalTab == ""

NextLine == ""

NoBreakSpace == " "

OghamSpaceMark == " "

\* char::is_whitespace, the White_Space property of Unicode, over the characters
\* a line of the model can hold: U+0009 to U+000D, U+0020, U+0085, U+00A0 and
\* U+1680.  The other white space characters (U+2000 to U+200A, U+2028, U+2029,
\* U+202F, U+205F, U+3000) cannot be written in a string, so no line holds them.
Whitespace ==
    {" ", "\t", "\n", "\r", "\f", VerticalTab, NextLine, NoBreakSpace, OghamSpaceMark}

RECURSIVE TrimStart(_)
TrimStart(s) ==
    IF Len(s) > 0 /\ Head(s) \in Whitespace THEN TrimStart(Tail(s)) ELSE s

RECURSIVE TrimEnd(_)
TrimEnd(s) ==
    IF Len(s) > 0 /\ SubSeq(s, Len(s), Len(s)) \in Whitespace
    THEN TrimEnd(SubSeq(s, 1, Len(s) - 1))
    ELSE s

\* str::trim.
Trim(s) == TrimEnd(TrimStart(s))

\* str::split_whitespace over rest, cur being the word under way and acc the
\* words already closed.
RECURSIVE SplitFrom(_, _, _)
SplitFrom(rest, cur, acc) ==
    LET closed == IF Len(cur) > 0 THEN Append(acc, cur) ELSE acc
    IN IF Len(rest) = 0 THEN closed
       ELSE IF Head(rest) \in Whitespace THEN SplitFrom(Tail(rest), "", closed)
       ELSE SplitFrom(Tail(rest), cur \o Head(rest), acc)

split_whitespace(s) == SplitFrom(s, "", <<>>)

Simple(command, args) == [tag |-> "Simple", command |-> command, args |-> args]

Alias(name, expansion) == [tag |-> "Alias", name |-> name, expansion |-> expansion]

Builtin(name, args) == [tag |-> "Builtin", name |-> name, args |-> args]

Empty == [tag |-> "Empty"]

\* Parser::new.
Parser_new(config) ==
    [cache |-> LruNew(CacheCapacity), aliases |-> config.aliases, builtins |-> Builtins]

\* parse_uncached with the builtin lookup ahead of the alias lookup.
parse_uncached_builtinfirst(self, input) ==
    LET words == split_whitespace(Trim(input))
    IN IF Len(Trim(input)) = 0 \/ Len(words) = 0 THEN Ok(Empty)
       ELSE IF words[1] \in self.builtins THEN Ok(Builtin(words[1], Tail(words)))
       ELSE IF words[1] \in DOMAIN self.aliases THEN Ok(Alias(words[1], self.aliases[words[1]]))
       ELSE Ok(Simple(words[1], Tail(words)))

\* A parse_uncached that keeps the arguments of an aliased command.
parse_uncached_keepargs(self, input) ==
    LET trimmed == Trim(input)
        words == split_whitespace(trimmed)
        command == words[1]
        args == Tail(words)
    IN IF Len(trimmed) = 0 THEN Ok(Empty)
       ELSE IF Len(words) = 0 THEN Ok(Empty)
       ELSE IF command \in DOMAIN self.aliases
       THEN Ok([tag |-> "Alias", name |-> command, expansion |-> self.aliases[command],
                args |-> args])
       ELSE IF command \in self.builtins THEN Ok(Builtin(command, args))
       ELSE Ok(Simple(command, args))

\* Parser::parse_uncached.
parse_uncached(self, input) ==
    LET trimmed == Trim(input)
        words == split_whitespace(trimmed)
        command == words[1]
        args == Tail(words)
    IN IF Len(trimmed) = 0 THEN Ok(Empty)
       ELSE IF Len(words) = 0 THEN Ok(Empty)
       ELSE IF command \in DOMAIN self.aliases THEN Ok(Alias(command, self.aliases[command]))
       ELSE IF command \in self.builtins THEN Ok(Builtin(command, args))
       ELSE Ok(Simple(command, args))

\* parse with the budget compared before the cache lookup.
parse_budgetfirst(self, input, elapsed) ==
    IF elapsed > from_millis(MAX_PARSER_MS)
    THEN [ret |-> ParserBudgetExceeded(MAX_PARSER_MS, as_millis(elapsed)), self |-> self]
    ELSE IF LruContains(self.cache, input)
    THEN [ret |-> Ok(LruValue(self.cache, input)),
          self |-> [self EXCEPT !.cache = LruGet(self.cache, input)]]
    ELSE [ret |-> parse_uncached(self, input),
          self |-> [self EXCEPT !.cache = LruPut(self.cache, input, parse_uncached(self, input).value)]]

\* parse with the result stored before the budget is compared.
parse_cachefailed(self, input, elapsed) ==
    IF LruContains(self.cache, input)
    THEN [ret |-> Ok(LruValue(self.cache, input)),
          self |-> [self EXCEPT !.cache = LruGet(self.cache, input)]]
    ELSE LET result == parse_uncached(self, input)
             stored == [self EXCEPT !.cache = LruPut(self.cache, input, result.value)]
         IN IF elapsed > from_millis(MAX_PARSER_MS)
            THEN [ret |-> ParserBudgetExceeded(MAX_PARSER_MS, as_millis(elapsed)), self |-> stored]
            ELSE [ret |-> result, self |-> stored]

\* parse with the cache keyed by the command token instead of the whole line.
parse_commandkey(self, input, elapsed) ==
    LET words == split_whitespace(input)
        key == IF Len(words) = 0 THEN "" ELSE words[1]
    IN IF LruContains(self.cache, key)
       THEN [ret |-> Ok(LruValue(self.cache, key)),
             self |-> [self EXCEPT !.cache = LruGet(self.cache, key)]]
       ELSE LET result == parse_uncached(self, input)
            IN IF elapsed > from_millis(MAX_PARSER_MS)
               THEN [ret |-> ParserBudgetExceeded(MAX_PARSER_MS, as_millis(elapsed)),
                     self |-> self]
               ELSE [ret |-> result,
                     self |-> [self EXCEPT !.cache = LruPut(self.cache, key, result.value)]]

\* parse with the cache keyed by the trimmed line.
parse_trimmedkey(self, input, elapsed) ==
    LET key == Trim(input)
    IN IF LruContains(self.cache, key)
       THEN [ret |-> Ok(LruValue(self.cache, key)),
             self |-> [self EXCEPT !.cache = LruGet(self.cache, key)]]
       ELSE LET result == parse_uncached(self, input)
            IN IF elapsed > from_millis(MAX_PARSER_MS)
               THEN [ret |-> ParserBudgetExceeded(MAX_PARSER_MS, as_millis(elapsed)),
                     self |-> self]
               ELSE [ret |-> result,
                     self |-> [self EXCEPT !.cache = LruPut(self.cache, key, result.value)]]

\* Parser::parse, the call taking `elapsed` microseconds between Instant::now()
\* and start.elapsed(): what it returns and the parser it leaves.
parse(self, input, elapsed) ==
    IF LruContains(self.cache, input)
    THEN [ret |-> Ok(LruValue(self.cache, input)),
          self |-> [self EXCEPT !.cache = LruGet(self.cache, input)]]
    ELSE LET result == parse_uncached(self, input)
         IN IF elapsed > from_millis(MAX_PARSER_MS)
            THEN [ret |-> ParserBudgetExceeded(MAX_PARSER_MS, as_millis(elapsed)), self |-> self]
            ELSE IF result.tag = "Ok"
            THEN [ret |-> result,
                  self |-> [self EXCEPT !.cache = LruPut(self.cache, input, result.value)]]
            ELSE [ret |-> result, self |-> self]

\* clear_cache emptying the alias table along with the cache.
clear_cache_all(self) == [self EXCEPT !.cache = LruClear(self.cache), !.aliases = <<>>]

\* Parser::clear_cache.
clear_cache(self) == [self EXCEPT !.cache = LruClear(self.cache)]

\* Parser::cache_len.
cache_len(self) == LruLen(self.cache)

(***************************************************************************)
(* The parser: the calls made on it.                                       *)
(***************************************************************************)

\* The last n elements of a sequence.
Keep(seq, n) == IF Len(seq) > n THEN SubSeq(seq, Len(seq) - n + 1, Len(seq)) ELSE seq

Remove(seq, x) == SelectSeq(seq, LAMBDA e : e # x)

Range(seq) == {seq[i] : i \in 1..Len(seq)}

\* A call parser.parse(input) that takes `elapsed` microseconds.
ParseCall(input, elapsed) ==
    LET r == parse(parser, input, elapsed)
    IN /\ parser' = r.self
       /\ last' = [op |-> "parse", input |-> input, elapsed |-> elapsed,
                   hit |-> LruContains(parser.cache, input), ret |-> r.ret]
       /\ log' = Keep(Append(log, last), window)
       /\ touched' = IF r.ret.tag = "Ok" THEN Append(Remove(touched, input), input) ELSE touched
       /\ UNCHANGED <<parserCfg, feed, window, cfgVars, execVars, promptVars, shellLast, updater,
                      pluginVars>>

\* A call parser.clear_cache().
ClearCacheCall ==
    /\ parser' = clear_cache(parser)
    /\ last' = [op |-> "clear_cache"]
    /\ log' = Keep(Append(log, last), window)
    /\ touched' = <<>>
    /\ UNCHANGED <<parserCfg, feed, window, cfgVars, execVars, promptVars, shellLast, updater,
                      pluginVars>>

(***************************************************************************)
(* The parser: configurations, input lines and elapsed times.              *)
(***************************************************************************)

\* Alias tables: none, the tests' table, and tables whose names are builtin names.
ParserAliasTables ==
    {<<>>,
     [ll |-> "ls -la", gs |-> "git status"],
     [cd |-> "pushd", ll |-> "ls -la"],
     [ls |-> "ls --color", echo |-> "printf"]}

ParserConfigs == {[CompiledConfigDefault EXCEPT !.aliases = a] : a \in ParserAliasTables}

\* The lines parsed.  They are ASCII: the model checker stores the low byte of
\* each character of a state, so a line with U+0085, U+00A0 or U+1680 would not
\* come back from the store as it went in.
ParseInputs ==
    {"", "   ", "ls -la /tmp", "ll", "cd /tmp", " ls ", "ls", "ll /tmp -x",
     "\tcd\t/tmp  -P ", "echo", "gs  status",
     VerticalTab \o "ll",
     "ls" \o VerticalTab \o "-la\f/tmp\r\n"}

\* Microseconds a call may take: none, exactly the budget, just over it, well over it.
ElapsedChoices == {0, 2000, 2001, 3700}

FeedSize == 2

ReplayFeedSize == 1

LruHeadroom == 1

Feeds(n) == {S \in SUBSET ParseInputs : Cardinality(S) >= 1 /\ Cardinality(S) <= n}

\* The k-th of the distinct lines that fill the cache.
Filler(k) == "w" \o ToString(k)

\* The parser after parse(Filler(1)), ..., parse(Filler(k)) on a new parser, each
\* call within the budget.
Filled(config, k) ==
    LET p == Parser_new(config)
    IN [p EXCEPT !.cache.entries =
            [i \in 1..k |-> [key |-> Filler(i), value |-> parse_uncached(p, Filler(i)).value]]]

\* The lines fed to the filled parser: the two oldest fillers, a command and an alias.
LruFeed == {Filler(1), Filler(2), "ls", "ll"}

\* Within the budget, and just over it.
FewElapsed == {0, 2001}

\* The tests' configuration (test_config).
LruConfig == [CompiledConfigDefault EXCEPT !.aliases = [ll |-> "ls -la", gs |-> "git status"]]

CfgIdle == cfgInput = [kind |-> "none"] /\ cfgResult = Pending

ParserIdle ==
    /\ parserCfg = CompiledConfigDefault
    /\ parser = Parser_new(CompiledConfigDefault)
    /\ last = [op |-> "new"]
    /\ log = <<>>
    /\ touched = <<>>
    /\ feed = {}
    /\ window = 0

(***************************************************************************)
(* The executor.                                                           *)
(***************************************************************************)

None == [tag |-> "None"]

Some(v) == [tag |-> "Some", value |-> v]

\* FrozenEnv::new.
FrozenEnv_new(config) == [vars |-> config.env]

\* Executor::new.
Executor_new(config) ==
    [env |-> FrozenEnv_new(config), aliases |-> config.aliases, initialized |-> FALSE]

\* An initialize that reports an overrun with the parser's error.
initialize_parservariant(self, elapsed) ==
    LET set == [self EXCEPT !.initialized = TRUE]
    IN IF elapsed > from_millis(MAX_EXECUTOR_MS)
       THEN [ret |-> ParserBudgetExceeded(MAX_PARSER_MS, as_millis(elapsed)), self |-> set]
       ELSE [ret |-> OkUnit, self |-> set]

\* An initialize that records its run in the environment snapshot.
initialize_exporting(self, elapsed) ==
    LET set == [self EXCEPT !.initialized = TRUE,
                            !.env.vars = ("PZSH_INITIALIZED" :> "1") @@ @]
    IN IF elapsed > from_millis(MAX_EXECUTOR_MS)
       THEN [ret |-> ExecutorBudgetExceeded(MAX_EXECUTOR_MS, as_millis(elapsed)), self |-> set]
       ELSE [ret |-> OkUnit, self |-> set]

\* An initialize that sets the flag only when it stays within the budget.
initialize_flagonsuccess(self, elapsed) ==
    IF elapsed > from_millis(MAX_EXECUTOR_MS)
    THEN [ret |-> ExecutorBudgetExceeded(MAX_EXECUTOR_MS, as_millis(elapsed)), self |-> self]
    ELSE [ret |-> OkUnit, self |-> [self EXCEPT !.initialized = TRUE]]

\* Executor::initialize, the call taking `elapsed` microseconds.
initialize(self, elapsed) ==
    LET set == [self EXCEPT !.initialized = TRUE]
    IN IF elapsed > from_millis(MAX_EXECUTOR_MS)
       THEN [ret |-> ExecutorBudgetExceeded(MAX_EXECUTOR_MS, as_millis(elapsed)), self |-> set]
       ELSE [ret |-> OkUnit, self |-> set]

\* Executor::is_initialized.
is_initialized(self) == self.initialized

\* Executor::get_env.
get_env(self, key) == IF key \in DOMAIN self.env.vars THEN Some(self.env.vars[key]) ELSE None

\* Executor::get_alias.
get_alias(self, name) == IF name \in DOMAIN self.aliases THEN Some(self.aliases[name]) ELSE None

\* expand_alias looking up the first word of the command.
expand_alias_firstword(self, command) ==
    LET words == split_whitespace(command)
    IN IF Len(words) > 0 /\ words[1] \in DOMAIN self.aliases
       THEN self.aliases[words[1]]
       ELSE command

\* An expand_alias that expands the expansion once more when it names an alias.
expand_alias_twice(self, command) ==
    IF command \notin DOMAIN self.aliases THEN command
    ELSE IF self.aliases[command] \in DOMAIN self.aliases
    THEN self.aliases[self.aliases[command]]
    ELSE self.aliases[command]

\* Executor::expand_alias.
expand_alias(self, command) ==
    IF command \in DOMAIN self.aliases THEN self.aliases[command] ELSE command

\* The statements without the quotes around the value.
RECURSIVE Statements_unquoted(_, _, _)
Statements_unquoted(keyword, map, order) ==
    IF order = <<>> THEN ""
    ELSE keyword \o Head(order) \o "=" \o map[Head(order)] \o "\n"
         \o Statements_unquoted(keyword, map, Tail(order))

\* The statements keyword NAME="VALUE"\n of the map's entries, in the order given.
RECURSIVE Statements(_, _, _)
Statements(keyword, map, order) ==
    IF order = <<>> THEN ""
    ELSE keyword \o Head(order) \o "=\"" \o map[Head(order)] \o "\"\n"
         \o Statements(keyword, map, Tail(order))

\* Executor::generate_exports, the environment map iterated in the order given.
generate_exports(self, order) == Statements("export ", self.env.vars, order)

\* Executor::generate_aliases, the alias map iterated in the order given.
generate_aliases(self, order) == Statements("alias ", self.aliases, order)

(***************************************************************************)
(* The executor: the calls made on it.                                     *)
(***************************************************************************)

ExecAliasTables ==
    {<<>>,
     [ll |-> "ls -la", gs |-> "git status"],
     [a |-> "b", b |-> "c"],
     [loop |-> "loop", ll |-> "ls -la"],
     [ping |-> "pong", pong |-> "ping"],
     [greet |-> "echo one\necho two", ll |-> "ls -la"]}

ExecEnvTables ==
    {<<>>, [EDITOR |-> "vim"], [EDITOR |-> "vim", GOROOT |-> "/usr/local/opt/go/libexec"],
     [EDITOR |-> "vim", MOTD |-> "line one\nline two"]}

ExecConfigs ==
    {[CompiledConfigDefault EXCEPT !.aliases = a, !.env = e] :
        a \in ExecAliasTables, e \in ExecEnvTables}

ExecCommands ==
    {"ll", "nonexistent", "ll /tmp", " ll", "", "a", "b", "c", "loop", "gs", "LL", "ls -la",
     "ping", "a b"}

ExecNames == {"ll", "gs", "a", "EDITOR", "GOROOT", "HOME"}

InitializeCall(elapsed) ==
    LET r == initialize(executor, elapsed)
    IN /\ executor' = r.self
       /\ execLast' = [op |-> "initialize", elapsed |-> elapsed, ret |-> r.ret]
       /\ UNCHANGED <<execCfg, cfgVars, parserVars, promptVars, shellLast, updater, pluginVars>>

ExpandAliasCall(command) ==
    /\ execLast' = [op |-> "expand_alias", command |-> command,
                    ret |-> expand_alias(executor, command)]
    /\ UNCHANGED <<executor, execCfg, cfgVars, parserVars, promptVars, shellLast, updater, pluginVars>>

GetAliasCall(name) ==
    /\ execLast' = [op |-> "get_alias", name |-> name, ret |-> get_alias(executor, name)]
    /\ UNCHANGED <<executor, execCfg, cfgVars, parserVars, promptVars, shellLast, updater, pluginVars>>

GetEnvCall(key) ==
    /\ execLast' = [op |-> "get_env", key |-> key, ret |-> get_env(executor, key)]
    /\ UNCHANGED <<executor, execCfg, cfgVars, parserVars, promptVars, shellLast, updater, pluginVars>>

GenerateExportsCall ==
    /\ \E order \in Orders(DOMAIN executor.env.vars) :
          execLast' = [op |-> "generate_exports", ret |-> generate_exports(executor, order)]
    /\ UNCHANGED <<executor, execCfg, cfgVars, parserVars, promptVars, shellLast, updater, pluginVars>>

GenerateAliasesCall ==
    /\ \E order \in Orders(DOMAIN executor.aliases) :
          execLast' = [op |-> "generate_aliases", ret |-> generate_aliases(executor, order)]
    /\ UNCHANGED <<executor, execCfg, cfgVars, parserVars, promptVars, shellLast, updater, pluginVars>>

ExecIdle ==
    /\ execCfg = CompiledConfigDefault
    /\ executor = Executor_new(CompiledConfigDefault)
    /\ execLast = [op |-> "new"]

(***************************************************************************)
(* The prompt renderer and its git cache.  The process environment is a    *)
(* record of what the process can read: the USER and PWD variables, the    *)
(* host name and the working directory, each an Option.                    *)
(***************************************************************************)

Literal(text) == [tag |-> "Literal", text |-> text]

User == [tag |-> "User"]

Host == [tag |-> "Host"]

Cwd == [tag |-> "Cwd"]

Git == [tag |-> "Git"]

Char == [tag |-> "Char"]

Custom(name) == [tag |-> "Custom", name |-> name]

\* GitCache::new.
GitCache_new == [branch |-> None, dirty |-> FALSE, valid |-> FALSE]

\* GitCache::is_valid.
is_valid(cache) == cache.valid

\* An invalidate that also forgets the stored branch and dirty flag.
invalidate_clearing(cache) == [cache EXCEPT !.valid = FALSE, !.branch = None, !.dirty = FALSE]

\* GitCache::invalidate.
invalidate(cache) == [cache EXCEPT !.valid = FALSE]

\* A render of the git status that shows the stored branch only while the cache is
\* valid.
GitCache_render_validonly(cache) ==
    IF cache.valid /\ cache.branch.tag = "Some"
    THEN "(" \o cache.branch.value \o (IF cache.dirty THEN "*" ELSE "") \o ")"
    ELSE ""

\* GitCache::render.
GitCache_render(cache) ==
    IF cache.branch.tag = "Some"
    THEN LET dirty_marker == IF cache.dirty THEN "*" ELSE ""
         IN "(" \o cache.branch.value \o dirty_marker \o ")"
    ELSE ""

\* The match on brace_content in parse_format.
SegmentOf(brace_content) ==
    IF brace_content = "user" THEN User
    ELSE IF brace_content = "host" THEN Host
    ELSE IF brace_content = "cwd" THEN Cwd
    ELSE IF brace_content = "git" THEN Git
    ELSE IF brace_content = "char" THEN Char
    ELSE Custom(brace_content)

\* The loop of parse_format flushing the pending literal at every opening brace,
\* empty or not.
RECURSIVE ScanFormat_flushalways(_, _)
ScanFormat_flushalways(rest, st) ==
    IF Len(rest) = 0 THEN st
    ELSE LET ch == Head(rest)
         IN IF ch = "{" /\ ~st.in_brace
            THEN ScanFormat_flushalways(Tail(rest),
                    [st EXCEPT !.segments = Append(@, Literal(st.current_literal)),
                               !.current_literal = "",
                               !.in_brace = TRUE])
            ELSE IF ch = "}" /\ st.in_brace
            THEN ScanFormat_flushalways(Tail(rest),
                    [st EXCEPT !.segments = Append(@, SegmentOf(st.brace_content)),
                               !.brace_content = "",
                               !.in_brace = FALSE])
            ELSE IF st.in_brace
            THEN ScanFormat_flushalways(Tail(rest), [st EXCEPT !.brace_content = @ \o ch])
            ELSE ScanFormat_flushalways(Tail(rest), [st EXCEPT !.current_literal = @ \o ch])

\* The loop of parse_format over the characters still to read, st holding
\* segments, current_literal, in_brace and brace_content.
RECURSIVE ScanFormat(_, _)
ScanFormat(rest, st) ==
    IF Len(rest) = 0 THEN st
    ELSE LET ch == Head(rest)
         IN IF ch = "{" /\ ~st.in_brace
            THEN ScanFormat(Tail(rest),
                    [st EXCEPT !.segments = IF Len(st.current_literal) > 0
                                            THEN Append(@, Literal(st.current_literal))
                                            ELSE @,
                               !.current_literal = "",
                               !.in_brace = TRUE])
            ELSE IF ch = "}" /\ st.in_brace
            THEN ScanFormat(Tail(rest),
                    [st EXCEPT !.segments = Append(@, SegmentOf(st.brace_content)),
                               !.brace_content = "",
                               !.in_brace = FALSE])
            ELSE IF st.in_brace
            THEN ScanFormat(Tail(rest), [st EXCEPT !.brace_content = @ \o ch])
            ELSE ScanFormat(Tail(rest), [st EXCEPT !.current_literal = @ \o ch])

\* A parse_format that keeps an unclosed placeholder as literal text.
parse_format_keeptail(format) ==
    LET st == ScanFormat(format, [segments |-> <<>>, current_literal |-> "",
                                  in_brace |-> FALSE, brace_content |-> ""])
        tail == IF st.in_brace THEN "{" \o st.brace_content ELSE st.current_literal
    IN IF Len(tail) > 0
       THEN Append(st.segments, Literal(tail))
       ELSE st.segments

\* Prompt::parse_format.
parse_format(format) ==
    LET st == ScanFormat(format, [segments |-> <<>>, current_literal |-> "",
                                  in_brace |-> FALSE, brace_content |-> ""])
    IN IF Len(st.current_literal) > 0
       THEN Append(st.segments, Literal(st.current_literal))
       ELSE st.segments

\* Prompt::new, in a process with the environment env.
Prompt_new(config, env) ==
    [segments |-> parse_format(config.prompt_format),
     git_cache |-> GitCache_new,
     user |-> IF env.USER.tag = "Some" THEN env.USER.value ELSE "user",
     host |-> IF env.hostname.tag = "Some" THEN env.hostname.value ELSE "localhost"]

\* A render that pushes the bare name of a Custom segment.
SegmentText_barename(self, env, segment) ==
    IF segment.tag = "Literal" THEN segment.text
    ELSE IF segment.tag = "User" THEN self.user
    ELSE IF segment.tag = "Host" THEN self.host
    ELSE IF segment.tag = "Cwd"
    THEN (IF env.PWD.tag = "Some" THEN env.PWD.value
          ELSE IF env.current_dir.tag = "Some" THEN env.current_dir.value
          ELSE "~")
    ELSE IF segment.tag = "Git" THEN GitCache_render(self.git_cache)
    ELSE IF segment.tag = "Char" THEN (IF self.user = "root" THEN "#" ELSE "$")
    ELSE segment.name

\* A render that reads USER and the host name when it is called.
SegmentText_liveuser(self, env, segment) ==
    IF segment.tag = "Literal" THEN segment.text
    ELSE IF segment.tag = "User"
    THEN (IF env.USER.tag = "Some" THEN env.USER.value ELSE "user")
    ELSE IF segment.tag = "Host"
    THEN (IF env.hostname.tag = "Some" THEN env.hostname.value ELSE "localhost")
    ELSE IF segment.tag = "Cwd"
    THEN (IF env.PWD.tag = "Some" THEN env.PWD.value
          ELSE IF env.current_dir.tag = "Some" THEN env.current_dir.value
          ELSE "~")
    ELSE IF segment.tag = "Git" THEN GitCache_render(self.git_cache)
    ELSE IF segment.tag = "Char" THEN (IF env.USER = Some("root") THEN "#" ELSE "$")
    ELSE "{" \o segment.name \o "}"

\* The text render pushes for one segment.
SegmentText(self, env, segment) ==
    IF segment.tag = "Literal" THEN segment.text
    ELSE IF segment.tag = "User" THEN self.user
    ELSE IF segment.tag = "Host" THEN self.host
    ELSE IF segment.tag = "Cwd"
    THEN (IF env.PWD.tag = "Some" THEN env.PWD.value
          ELSE IF env.current_dir.tag = "Some" THEN env.current_dir.value
          ELSE "~")
    ELSE IF segment.tag = "Git" THEN GitCache_render(self.git_cache)
    ELSE IF segment.tag = "Char" THEN (IF self.user = "root" THEN "#" ELSE "$")
    ELSE "{" \o segment.name \o "}"

\* The loop of render over the segments.
RECURSIVE RenderSegments(_, _, _)
RenderSegments(self, env, segments) ==
    IF segments = <<>> THEN ""
    ELSE SegmentText(self, env, Head(segments)) \o RenderSegments(self, env, Tail(segments))

\* A render that holds back its result until the git cache is valid.
render_waitvalid(self, env, elapsed) ==
    IF ~self.git_cache.valid THEN [tag |-> "Waiting"]
    ELSE IF elapsed > from_millis(MAX_PROMPT_MS)
    THEN PromptBudgetExceeded(MAX_PROMPT_MS, as_millis(elapsed))
    ELSE Ok(RenderSegments(self, env, self.segments))

\* Prompt::render, the call taking `elapsed` microseconds.
render(self, env, elapsed) ==
    LET output == RenderSegments(self, env, self.segments)
    IN IF elapsed > from_millis(MAX_PROMPT_MS)
       THEN PromptBudgetExceeded(MAX_PROMPT_MS, as_millis(elapsed))
       ELSE Ok(output)

\* An update_git_cache that stores the values and leaves the validity flag alone.
update_git_cache_novalid(self, branch, dirty) ==
    [self EXCEPT !.git_cache.branch = branch, !.git_cache.dirty = dirty]

\* Prompt::update_git_cache.
update_git_cache(self, branch, dirty) ==
    [self EXCEPT !.git_cache.branch = branch,
                 !.git_cache.dirty = dirty,
                 !.git_cache.valid = TRUE]

\* Prompt::invalidate_git_cache.
invalidate_git_cache(self) == [self EXCEPT !.git_cache = invalidate(self.git_cache)]

\* Prompt::segment_count.
segment_count(self) == Len(self.segments)

(***************************************************************************)
(* The prompt renderer: the calls made on it, and the steps of the process *)
(* around it.                                                              *)
(***************************************************************************)

\* A call prompt.render() that takes `elapsed` microseconds.
RenderCall(elapsed) ==
    LET ret == render(prompt, procEnv, elapsed)
    IN /\ promptLast' = [op |-> "render", elapsed |-> elapsed, env |-> procEnv, ret |-> ret]
       /\ rendered' = IF ret.tag # "Ok" THEN rendered
                      ELSE IF rendered = None
                      THEN [tag |-> "Some", value |-> ret.value, again |-> FALSE]
                      ELSE [rendered EXCEPT !.again = TRUE]
       /\ UNCHANGED <<prompt, promptCfg, procEnv, gitUpdate, gitInvalidated,
                      cfgVars, parserVars, execVars, shellLast, updater, pluginVars>>

\* A call prompt.update_git_cache(branch, dirty), made by the updater.
UpdateGitCacheCall(branch, dirty) ==
    /\ prompt' = update_git_cache(prompt, branch, dirty)
    /\ promptLast' = [op |-> "update_git_cache", branch |-> branch, dirty |-> dirty]
    /\ gitUpdate' = Some([branch |-> branch, dirty |-> dirty])
    /\ gitInvalidated' = FALSE
    /\ rendered' = None
    /\ UNCHANGED <<promptCfg, procEnv, cfgVars, parserVars, execVars, shellLast, updater, pluginVars>>

\* A call prompt.invalidate_git_cache().
InvalidateGitCacheCall ==
    /\ prompt' = invalidate_git_cache(prompt)
    /\ promptLast' = [op |-> "invalidate_git_cache"]
    /\ gitInvalidated' = TRUE
    /\ UNCHANGED <<promptCfg, procEnv, gitUpdate, rendered, cfgVars, parserVars, execVars,
                   shellLast, updater, pluginVars>>

\* The process changes its working directory or its PWD variable.
ChangeDir(env) ==
    /\ env.USER = procEnv.USER
    /\ env.hostname = procEnv.hostname
    /\ env # procEnv
    /\ procEnv' = env
    /\ promptLast' = [op |-> "chdir"]
    /\ rendered' = None
    /\ UNCHANGED <<prompt, promptCfg, gitUpdate, gitInvalidated, cfgVars, parserVars, execVars,
                   shellLast, updater, pluginVars>>

\* The USER variable or the host name of the process changes.
ChangeIdentity(env) ==
    /\ env.PWD = procEnv.PWD
    /\ env.current_dir = procEnv.current_dir
    /\ env # procEnv
    /\ procEnv' = env
    /\ promptLast' = [op |-> "setenv"]
    /\ UNCHANGED <<prompt, promptCfg, gitUpdate, gitInvalidated, rendered, cfgVars, parserVars,
                   execVars, shellLast, updater, pluginVars>>

(***************************************************************************)
(* The updater inside update_git_cache.  The call takes &mut self: while   *)
(* it runs it is the only call on the prompt.  Its three stores are        *)
(* separate steps.                                                         *)
(***************************************************************************)

UpdaterIdle == updater = [pc |-> "idle"]

\* An update_git_cache that takes a shared reference and borrows nothing
\* exclusively.
mut_borrowed_never(u) == FALSE

\* update_git_cache(&mut self, ..) borrows the prompt exclusively from its call to
\* its return.
mut_borrowed(u) == u.pc # "idle"

\* The updater calls update_git_cache(branch, dirty).
UpdateEnter(branch, dirty) ==
    /\ ~mut_borrowed(updater)
    /\ updater' = [pc |-> "branch", branch |-> branch, dirty |-> dirty]
    /\ promptLast' = [op |-> "update_git_cache:enter", branch |-> branch, dirty |-> dirty]
    /\ gitUpdate' = Some([branch |-> branch, dirty |-> dirty])
    /\ rendered' = None
    /\ UNCHANGED <<prompt, promptCfg, procEnv, gitInvalidated, cfgVars, parserVars, execVars,
                   shellLast, pluginVars>>

\* self.git_cache.branch = branch.
UpdateStoreBranch ==
    /\ updater.pc = "branch"
    /\ prompt' = [prompt EXCEPT !.git_cache.branch = updater.branch]
    /\ updater' = [updater EXCEPT !.pc = "dirty"]
    /\ promptLast' = [op |-> "update_git_cache:branch"]
    /\ UNCHANGED <<promptCfg, procEnv, gitUpdate, gitInvalidated, rendered, cfgVars, parserVars,
                   execVars, shellLast, pluginVars>>

\* self.git_cache.dirty = dirty.
UpdateStoreDirty ==
    /\ updater.pc = "dirty"
    /\ prompt' = [prompt EXCEPT !.git_cache.dirty = updater.dirty]
    /\ updater' = [updater EXCEPT !.pc = "valid"]
    /\ promptLast' = [op |-> "update_git_cache:dirty"]
    /\ UNCHANGED <<promptCfg, procEnv, gitUpdate, gitInvalidated, rendered, cfgVars, parserVars,
                   execVars, shellLast, pluginVars>>

\* self.git_cache.valid.store(true), and the call returns.
UpdateStoreValid ==
    /\ updater.pc = "valid"
    /\ prompt' = [prompt EXCEPT !.git_cache.valid = TRUE]
    /\ updater' = [pc |-> "idle"]
    /\ promptLast' = [op |-> "update_git_cache", branch |-> updater.branch,
                      dirty |-> updater.dirty]
    /\ gitInvalidated' = FALSE
    /\ UNCHANGED <<promptCfg, procEnv, gitUpdate, rendered, cfgVars, parserVars, execVars,
                   shellLast, pluginVars>>

\* The renderer calls render(&self) while the prompt is not borrowed exclusively.
SharedRenderCall(elapsed) == ~mut_borrowed(updater) /\ RenderCall(elapsed)

\* invalidate_git_cache(&self), called while the prompt is not borrowed exclusively.
SharedInvalidateCall == ~mut_borrowed(updater) /\ InvalidateGitCacheCall

(***************************************************************************)
(* The prompt renderer: configurations, environments and arguments.       *)
(***************************************************************************)

\* Format strings: the default and the tests' formats, the empty format, literal
\* text only, placeholders side by side, unknown and empty placeholders, braces
\* without a partner, a brace inside a placeholder, placeholders that are no
\* keyword with everything closed, and a placeholder left open after a keyword.
PromptFormats ==
    {"{user}@{host} {cwd} {git} {char}", "{user}@{host} {cwd} {git} {char} ", "{user}", "",
     "plain $ ", "{git}", "{git}{cwd}", "[{time}] {}{char}", "a}b{git", "{us{er}} x}",
     "> {git} {User}}", "{cwd", "[{time}] {} {Git}}", "{user}> {gi"}

\* The prompt budgets a configuration may ask for, in milliseconds.
PromptBudgets == {0, 1, 2, 5}

PromptConfigs ==
    {[CompiledConfigDefault EXCEPT !.prompt_format = f] : f \in PromptFormats}
    \cup {[CompiledConfigDefault EXCEPT !.prompt_budget_ms = b] : b \in PromptBudgets}

\* Who the process runs as and where: an ordinary user, root, and a process with
\* neither USER nor a host name.
Identities ==
    {[USER |-> Some("alice"), hostname |-> Some("box")],
     [USER |-> Some("root"), hostname |-> Some("box")],
     [USER |-> None, hostname |-> None]}

\* Where the process is: PWD set, PWD unset, neither PWD nor a working directory.
Places ==
    {[PWD |-> Some("/tmp"), current_dir |-> Some("/private/tmp")],
     [PWD |-> None, current_dir |-> Some("/home/alice")],
     [PWD |-> None, current_dir |-> None]}

ProcEnvs ==
    {[USER |-> i.USER, hostname |-> i.hostname, PWD |-> p.PWD, current_dir |-> p.current_dir] :
        i \in Identities, p \in Places}

\* The environment the components that never read it are given.
NoEnv == [USER |-> None, hostname |-> None, PWD |-> None, current_dir |-> None]

Branches == {None, Some("main"), Some("feature-branch")}

\* Microseconds a render may take: none, a few, a configured budget of 1 ms, just
\* over it, exactly the renderer's budget, just over it, between that and the
\* largest configured budget, and over every budget.
RenderElapsed == {0, 40, 1000, 1500, 2000, 2001, 3700, 5001}

PromptIdle ==
    /\ promptCfg = CompiledConfigDefault
    /\ procEnv = NoEnv
    /\ prompt = Prompt_new(CompiledConfigDefault, NoEnv)
    /\ promptLast = [op |-> "new"]
    /\ gitUpdate = None
    /\ gitInvalidated = FALSE
    /\ rendered = None

(***************************************************************************)
(* The shell instance.                                                     *)
(***************************************************************************)

\* Pzsh::new, the call taking `elapsed` microseconds in a process with the
\* environment env.
Pzsh_new(config, env, elapsed) ==
    LET shell_type == config.shell_type
        p == Parser_new(config)
        e == Executor_new(config)
        pr == Prompt_new(config, env)
    IN IF elapsed > from_millis(MAX_STARTUP_MS)
       THEN StartupBudgetExceeded(MAX_STARTUP_MS, as_millis(elapsed))
       ELSE Ok([config |-> config, parser |-> p, executor |-> e, prompt |-> pr,
                shell_type |-> shell_type])

ShellIdle == shellLast = [op |-> "none"]

\* A call Pzsh::new(config) on a clone of the compiled configuration, taking
\* `elapsed` microseconds.
PzshNewCall(elapsed) ==
    /\ cfgResult.tag = "Ok"
    /\ shellLast' = [op |-> "new", config |-> cfgResult.config, elapsed |-> elapsed,
                     ret |-> Pzsh_new(cfgResult.config, procEnv, elapsed)]
    /\ UNCHANGED <<cfgVars, parserVars, execVars, promptVars, updater, pluginVars>>

\* A call config.get_alias(name) on the compiled configuration.
ConfigGetAliasCall(name) ==
    /\ cfgResult.tag = "Ok"
    /\ shellLast' = [op |-> "get_alias", name |-> name,
                     ret |-> CompiledConfig_get_alias(cfgResult.config, name)]
    /\ UNCHANGED <<cfgVars, parserVars, execVars, promptVars, updater, pluginVars>>

\* A call config.get_env(name) on the compiled configuration.
ConfigGetEnvCall(name) ==
    /\ cfgResult.tag = "Ok"
    /\ shellLast' = [op |-> "get_env", name |-> name,
                     ret |-> CompiledConfig_get_env(cfgResult.config, name)]
    /\ UNCHANGED <<cfgVars, parserVars, execVars, promptVars, updater, pluginVars>>

(***************************************************************************)
(* The pipeline: what it is built from and what it is called with.         *)
(***************************************************************************)

\* The sources the pipeline's configuration is compiled from: the tests' aliases
\* and environment with the default budgets, and a configuration asking for
\* tighter startup and prompt budgets.
PipelineSources ==
    {[SourceConfigDefault EXCEPT !.aliases = [ll |-> "ls -la", gs |-> "git status"],
                                 !.env = [EDITOR |-> "vim"],
                                 !.prompt = DeserPrompt(Toml("table", <<>>)).value],
     [SourceConfigDefault EXCEPT !.aliases = [ll |-> "ls -la"],
                                 !.performance.startup_budget_ms = 5,
                                 !.performance.prompt_budget_ms = 1,
                                 !.prompt.format = "{git}{char}"]}

\* The process the pipeline runs in.
PipelineEnv ==
    [USER |-> Some("alice"), hostname |-> Some("box"), PWD |-> Some("/tmp"),
     current_dir |-> Some("/private/tmp")]

PipelineFeed == {"ll"}

PipelineNames == {"ll", "EDITOR"}

\* Microseconds a construction may take: none, exactly the startup budget, just
\* over it, well over it.
StartupElapsed == {0, 10000, 10001, 12500}

(***************************************************************************)
(* The plugin manager (src/src/plugin/mod.rs).  A plugin is known by its   *)
(* PluginInfo: its name and the names it depends on.  What its init        *)
(* returns is an input of the load call.                                   *)
(***************************************************************************)

PLUGIN_BUDGET_MS == 5

\* PluginInfo::new.
PluginInfo_new(name) == [name |-> name, dependencies |-> <<>>]

\* PluginInfo::with_dependency.
with_dependency(info, dep) == [info EXCEPT !.dependencies = Append(@, dep)]

NotFound(name) == [tag |-> "Err", error |-> "NotFound", name |-> name]

LoadFailed(message) == [tag |-> "Err", error |-> "LoadFailed", message |-> message]

BudgetExceeded(actual_ms) == [tag |-> "Err", error |-> "BudgetExceeded", actual_ms |-> actual_ms]

DependencyNotMet(dep) == [tag |-> "Err", error |-> "DependencyNotMet", name |-> dep]

\* AHashMap::insert.
Insert(map, key, value) == [k \in DOMAIN map \cup {key} |-> IF k = key THEN value ELSE map[k]]

\* The plugins PluginManager::new registers.
BuiltinPlugins ==
    {"git", "docker", "kubectl", "npm", "python", "golang", "rust", "terraform", "aws"}

\* PluginManager::register.
register(self, plugin) ==
    [self EXCEPT !.plugins = Insert(@, plugin.name, plugin),
                 !.states = Insert(@, plugin.name, "Registered")]

\* PluginManager::new.
PluginManager_new ==
    [plugins |-> [name \in BuiltinPlugins |-> PluginInfo_new(name)],
     states |-> [name \in BuiltinPlugins |-> "Registered"],
     load_order |-> <<>>]

\* PluginManager::state.
state(self, name) == IF name \in DOMAIN self.states THEN Some(self.states[name]) ELSE None

\* The first dependency in deps that is not Loaded, if any.
FirstUnmet(self, deps) ==
    LET unmet == {i \in 1..Len(deps) : state(self, deps[i]) # Some("Loaded")}
    IN IF unmet = {} THEN None
       ELSE Some(deps[CHOOSE i \in unmet : \A j \in unmet : i <= j])

\* A load that returns the error of a failed init and leaves the state as it was
\* when init was called.
load_noinspect(self, name, init_ret, elapsed) ==
    IF state(self, name) = Some("Loaded") THEN [ret |-> Ok(0), self |-> self]
    ELSE IF name \notin DOMAIN self.plugins THEN [ret |-> NotFound(name), self |-> self]
    ELSE LET unmet == FirstUnmet(self, self.plugins[name].dependencies)
             loading == [self EXCEPT !.states = Insert(@, name, "Loading")]
         IN IF unmet.tag = "Some" THEN [ret |-> DependencyNotMet(unmet.value), self |-> self]
            ELSE IF init_ret.tag = "Err" THEN [ret |-> init_ret, self |-> loading]
            ELSE IF elapsed > from_millis(PLUGIN_BUDGET_MS)
            THEN [ret |-> BudgetExceeded(as_millis(elapsed)),
                  self |-> [loading EXCEPT !.states = Insert(@, name, "Failed")]]
            ELSE [ret |-> Ok(elapsed),
                  self |-> [loading EXCEPT !.states = Insert(@, name, "Loaded"),
                                           !.load_order = Append(@, name)]]

\* PluginManager::load, the plugin's init returning init_ret and the call taking
\* `elapsed` microseconds up to the budget check.
load(self, name, init_ret, elapsed) ==
    IF state(self, name) = Some("Loaded") THEN [ret |-> Ok(0), self |-> self]
    ELSE IF name \notin DOMAIN self.plugins THEN [ret |-> NotFound(name), self |-> self]
    ELSE LET unmet == FirstUnmet(self, self.plugins[name].dependencies)
             loading == [self EXCEPT !.states = Insert(@, name, "Loading")]
         IN IF unmet.tag = "Some" THEN [ret |-> DependencyNotMet(unmet.value), self |-> self]
            ELSE IF init_ret.tag = "Err"
            THEN [ret |-> init_ret,
                  self |-> [loading EXCEPT !.states = Insert(@, name, "Failed")]]
            ELSE IF elapsed > from_millis(PLUGIN_BUDGET_MS)
            THEN [ret |-> BudgetExceeded(as_millis(elapsed)),
                  self |-> [loading EXCEPT !.states = Insert(@, name, "Failed")]]
            ELSE [ret |-> Ok(elapsed),
                  self |-> [loading EXCEPT !.states = Insert(@, name, "Loaded"),
                                           !.load_order = Append(@, name)]]

\* PluginManager::loaded_count.
loaded_count(self) == Cardinality({name \in DOMAIN self.states : self.states[name] = "Loaded"})

(***************************************************************************)
(* The plugin manager: the calls made on it.                               *)
(***************************************************************************)

\* register is called only while fewer than this many loads are recorded in
\* load_order.
MaxLoadOrder == 3

\* A call manager.register(plugin).
RegisterCall(plugin) ==
    /\ Len(manager.load_order) < MaxLoadOrder
    /\ manager' = register(manager, plugin)
    /\ pluginLast' = [op |-> "register", name |-> plugin.name]
    /\ UNCHANGED <<cfgVars, parserVars, execVars, promptVars, shellLast, updater>>

\* A call manager.load(name).
LoadCall(name, init_ret, elapsed) ==
    LET r == load(manager, name, init_ret, elapsed)
    IN /\ manager' = r.self
       /\ pluginLast' = [op |-> "load", name |-> name, init_ret |-> init_ret,
                         elapsed |-> elapsed, ret |-> r.ret]
       /\ UNCHANGED <<cfgVars, parserVars, execVars, promptVars, shellLast, updater>>

\* Plugins the session registers: the tests' plugin that depends on git, a plugin
\* of the same name that depends on a name never registered, a plugin with two
\* dependencies, one of them registered by the session, and the built-in git
\* plugin registered again.
PluginPool ==
    {with_dependency(PluginInfo_new("test"), "git"),
     with_dependency(PluginInfo_new("test"), "other"),
     with_dependency(with_dependency(PluginInfo_new("extra"), "docker"), "test"),
     PluginInfo_new("git")}

PluginNames == {"git", "docker", "test", "extra", "nonexistent"}

\* What a plugin's init may return.
InitResults == {Ok(<<>>), LoadFailed("init failed")}

\* Microseconds a load may take: none, exactly the plugin budget, just over it.
PluginElapsed == {0, 5000, 5001}

PluginIdle ==
    /\ manager = PluginManager_new
    /\ pluginLast = [op |-> "new"]

(***************************************************************************)
(* Specifications.                                                         *)
(***************************************************************************)

\* The configuration compiler run once on each input.
InitConfig ==
    /\ cfgInput \in CfgInputs
    /\ cfgResult = Pending
    /\ ParserIdle
    /\ ExecIdle
    /\ PromptIdle
    /\ ShellIdle
    /\ UpdaterIdle
    /\ PluginIdle

NextConfig == Compile \/ FromToml

SpecConfig == InitConfig /\ [][NextConfig]_vars

\* A new parser fed a few lines, in any order and any number of times.
InitParser ==
    /\ parserCfg \in ParserConfigs
    /\ parser = Parser_new(parserCfg)
    /\ last = [op |-> "new"]
    /\ log = <<>>
    /\ touched = <<>>
    /\ feed \in Feeds(FeedSize)
    /\ window = 0
    /\ CfgIdle
    /\ ExecIdle
    /\ PromptIdle
    /\ ShellIdle
    /\ UpdaterIdle
    /\ PluginIdle

NextParser ==
    \/ \E input \in feed, elapsed \in ElapsedChoices : ParseCall(input, elapsed)
    \/ ClearCacheCall

SpecParser == InitParser /\ [][NextParser]_vars

\* The same parser, the two calls before the last one kept in log.
InitReplay ==
    /\ parserCfg \in ParserConfigs
    /\ parser = Parser_new(parserCfg)
    /\ last = [op |-> "new"]
    /\ log = <<>>
    /\ touched = <<>>
    /\ feed \in Feeds(ReplayFeedSize)
    /\ window = 2
    /\ CfgIdle
    /\ ExecIdle
    /\ PromptIdle
    /\ ShellIdle
    /\ UpdaterIdle
    /\ PluginIdle

NextReplay ==
    \/ \E input \in feed, elapsed \in FewElapsed : ParseCall(input, elapsed)
    \/ ClearCacheCall

SpecReplay == InitReplay /\ [][NextReplay]_vars

\* A parser whose cache is full or nearly full of lines parsed earlier.
InitLru ==
    /\ parserCfg = LruConfig
    /\ \E k \in (CacheCapacity - LruHeadroom)..CacheCapacity :
          /\ parser = Filled(parserCfg, k)
          /\ touched = [i \in 1..k |-> Filler(i)]
          /\ last = [op |-> "parse", input |-> Filler(k), elapsed |-> 0, hit |-> FALSE,
                     ret |-> parse_uncached(parser, Filler(k))]
    /\ log = <<>>
    /\ feed = LruFeed
    /\ window = 0
    /\ CfgIdle
    /\ ExecIdle
    /\ PromptIdle
    /\ ShellIdle
    /\ UpdaterIdle
    /\ PluginIdle

NextLru ==
    \/ \E input \in feed, elapsed \in FewElapsed : ParseCall(input, elapsed)
    \/ ClearCacheCall

SpecLru == InitLru /\ [][NextLru]_vars

\* An executor built from a configuration and called in any order.
InitExecutor ==
    /\ execCfg \in ExecConfigs
    /\ executor = Executor_new(execCfg)
    /\ execLast = [op |-> "new"]
    /\ CfgIdle
    /\ ParserIdle
    /\ PromptIdle
    /\ ShellIdle
    /\ UpdaterIdle
    /\ PluginIdle

NextExecutor ==
    \/ \E elapsed \in ElapsedChoices : InitializeCall(elapsed)
    \/ \E command \in ExecCommands : ExpandAliasCall(command)
    \/ \E name \in ExecNames : GetAliasCall(name)
    \/ \E key \in ExecNames : GetEnvCall(key)
    \/ GenerateExportsCall
    \/ GenerateAliasesCall

SpecExecutor == InitExecutor /\ [][NextExecutor]_vars

\* A prompt built from a configuration in a process, rendered while the updater
\* writes the git cache and the process moves about.
InitPrompt ==
    /\ promptCfg \in PromptConfigs
    /\ procEnv \in ProcEnvs
    /\ prompt = Prompt_new(promptCfg, procEnv)
    /\ promptLast = [op |-> "new"]
    /\ gitUpdate = None
    /\ gitInvalidated = FALSE
    /\ rendered = None
    /\ CfgIdle
    /\ ParserIdle
    /\ ExecIdle
    /\ ShellIdle
    /\ UpdaterIdle
    /\ PluginIdle

NextPrompt ==
    \/ \E elapsed \in RenderElapsed : RenderCall(elapsed)
    \/ \E branch \in Branches, dirty \in BOOLEAN : UpdateGitCacheCall(branch, dirty)
    \/ InvalidateGitCacheCall
    \/ \E env \in ProcEnvs : ChangeDir(env)
    \/ \E env \in ProcEnvs : ChangeIdentity(env)

SpecPrompt == InitPrompt /\ [][NextPrompt]_vars

\* One updater and one renderer on a prompt whose format shows the git status:
\* the updater moves through update_git_cache store by store, the renderer
\* renders and invalidates whenever the prompt is not borrowed exclusively.
InitUpdater ==
    /\ promptCfg \in {[CompiledConfigDefault EXCEPT !.prompt_format = f] :
                         f \in {"{git}", "{git}{cwd}"}}
    /\ procEnv = PipelineEnv
    /\ prompt = Prompt_new(promptCfg, procEnv)
    /\ promptLast = [op |-> "new"]
    /\ gitUpdate = None
    /\ gitInvalidated = FALSE
    /\ rendered = None
    /\ UpdaterIdle
    /\ CfgIdle
    /\ ParserIdle
    /\ ExecIdle
    /\ ShellIdle
    /\ PluginIdle

NextUpdater ==
    \/ \E branch \in Branches, dirty \in BOOLEAN : UpdateEnter(branch, dirty)
    \/ UpdateStoreBranch
    \/ UpdateStoreDirty
    \/ UpdateStoreValid
    \/ \E elapsed \in FewElapsed : SharedRenderCall(elapsed)
    \/ SharedInvalidateCall

SpecUpdater == InitUpdater /\ [][NextUpdater]_vars

\* A plugin manager with its built-in plugins, more plugins registered and
\* plugins loaded in any order.
InitPlugin ==
    /\ manager = PluginManager_new
    /\ pluginLast = [op |-> "new"]
    /\ CfgIdle
    /\ ParserIdle
    /\ ExecIdle
    /\ PromptIdle
    /\ ShellIdle
    /\ UpdaterIdle

NextPlugin ==
    \/ \E plugin \in PluginPool : RegisterCall(plugin)
    \/ \E name \in PluginNames, init_ret \in InitResults, elapsed \in PluginElapsed :
          LoadCall(name, init_ret, elapsed)

SpecPlugin == InitPlugin /\ [][NextPlugin]_vars

\* The whole pipeline: a configuration was compiled, a parser, an executor and a
\* prompt were built from it, and the shell instance, the accessors of the
\* configuration and the three components are called in any order.
InitPipeline ==
    /\ \E source \in PipelineSources :
          /\ cfgInput = [kind |-> "source", source |-> source]
          /\ \E eo \in Orders(DOMAIN source.env), ao \in Orders(DOMAIN source.aliases) :
                cfgResult = compile(source, eo, ao)
    /\ cfgResult.tag = "Ok"
    /\ parserCfg = cfgResult.config
    /\ parser = Parser_new(parserCfg)
    /\ last = [op |-> "new"]
    /\ log = <<>>
    /\ touched = <<>>
    /\ feed = PipelineFeed
    /\ window = 0
    /\ execCfg = cfgResult.config
    /\ executor = Executor_new(execCfg)
    /\ execLast = [op |-> "new"]
    /\ promptCfg = cfgResult.config
    /\ procEnv = PipelineEnv
    /\ prompt = Prompt_new(promptCfg, procEnv)
    /\ promptLast = [op |-> "new"]
    /\ gitUpdate = None
    /\ gitInvalidated = FALSE
    /\ rendered = None
    /\ ShellIdle
    /\ UpdaterIdle
    /\ PluginIdle

NextPipeline ==
    \/ \E elapsed \in StartupElapsed : PzshNewCall(elapsed)
    \/ \E name \in PipelineNames : ConfigGetAliasCall(name)
    \/ \E name \in PipelineNames : ConfigGetEnvCall(name)
    \/ \E input \in feed, elapsed \in FewElapsed : ParseCall(input, elapsed)
    \/ ClearCacheCall
    \/ \E elapsed \in FewElapsed : InitializeCall(elapsed)
    \/ \E command \in PipelineFeed : ExpandAliasCall(command)
    \/ \E name \in PipelineNames : GetAliasCall(name)
    \/ \E key \in PipelineNames : GetEnvCall(key)
    \/ GenerateExportsCall
    \/ GenerateAliasesCall
    \/ \E elapsed \in FewElapsed : RenderCall(elapsed)
    \/ UpdateGitCacheCall(Some("main"), TRUE)
    \/ InvalidateGitCacheCall

SpecPipeline == InitPipeline /\ [][NextPipeline]_vars

\* The four timed stages called with elapsed times around their budgets.
\* Microseconds a parse, an initialize or a render may take: none, just under the
\* budget of 2 ms, exactly the budget, just over it, a full millisecond over it
\* less one microsecond, a full millisecond over it.
StageElapsed == {0, 1999, 2000, 2001, 2999, 3000}

\* The same around the startup budget of 10 ms.
NewElapsed == {0, 9999, 10000, 10001, 10999, 11000}

NextBudget ==
    \/ \E elapsed \in NewElapsed : PzshNewCall(elapsed)
    \/ \E input \in feed, elapsed \in StageElapsed : ParseCall(input, elapsed)
    \/ ClearCacheCall
    \/ \E elapsed \in StageElapsed : InitializeCall(elapsed)
    \/ \E elapsed \in StageElapsed : RenderCall(elapsed)

SpecBudget == InitPipeline /\ [][NextBudget]_vars

(***************************************************************************)
(* Properties of the configuration compiler.                               *)
(***************************************************************************)

\* frag occurs in value: some stretch of value, from position i to position j, is frag.
HasFragment(value, frag) ==
    \E i \in 1..Len(value) : \E j \in i..Len(value) : SubSeq(value, i, j) = frag

Denylisted(value) ==
    \/ HasFragment(value, "$(")
    \/ HasFragment(value, Backtick)
    \/ HasFragment(value, "brew --prefix")
    \/ HasFragment(value, "eval ")

SomeDenylisted(map) == \E k \in DOMAIN map : Denylisted(map[k])

\* C1: compile(source) returns a ForbiddenPattern error if and only if some alias
\* expansion or environment value of source contains `$(`, a backtick,
\* `brew --prefix` or `eval `; a failed compile returns no configuration at all, and
\* a successful one returns alias and env maps equal to the source's.
C1_ForbiddenIffDenylisted ==
    (cfgInput.kind = "source" /\ cfgResult # Pending) =>
        LET src == cfgInput.source
            bad == SomeDenylisted(src.aliases) \/ SomeDenylisted(src.env)
        IN /\ cfgResult.tag \in {"Ok", "Err"}
           /\ (cfgResult.tag = "Err") <=> bad
           /\ cfgResult.tag = "Err" =>
                 /\ cfgResult.error = "ForbiddenPattern"
                 /\ "config" \notin DOMAIN cfgResult
           /\ cfgResult.tag = "Ok" =>
                 /\ cfgResult.config.aliases = src.aliases
                 /\ cfgResult.config.env = src.env

\* A compile that failed only because an alias expansion holds `eval ` inside a
\* longer word, next to a near miss and a harmless environment value.
C1_Witness ==
    /\ cfgInput.kind = "source"
    /\ cfgInput.source.aliases = [ll |-> "medieval x", gs |-> "eval"]
    /\ cfgInput.source.env = [EDITOR |-> "vim", PATH |-> "brew  --prefix"]
    /\ cfgResult.tag = "Err"
    /\ cfgResult.error = "ForbiddenPattern"

\* A field is missing from a document: its section is absent, or present without it.
Missing(doc, section, field) ==
    \/ section \notin DOMAIN doc
    \/ doc[section].type = "table" /\ field \notin DOMAIN doc[section].value

\* C2: compiling a document falls back to the documented defaults for everything
\* that is missing, whether a whole section or a field of a present section:
\* startup budget 10, prompt budget 2, lazy-load true, the default prompt format,
\* git-async true, git cache lifetime 1000.
C2_MissingFallsBackToDefaults ==
    (cfgInput.kind = "toml" /\ cfgResult.tag = "Ok") =>
        LET doc == cfgInput.doc
            c == cfgResult.config
        IN /\ Missing(doc, "performance", "startup_budget_ms") => c.startup_budget_ms = 10
           /\ Missing(doc, "performance", "prompt_budget_ms") => c.prompt_budget_ms = 2
           /\ Missing(doc, "performance", "lazy_load") => c.lazy_load = TRUE
           /\ Missing(doc, "prompt", "format") =>
                 c.prompt_format = "{user}@{host} {cwd} {git} {char}"
           /\ Missing(doc, "prompt", "git_async") => c.git_async = TRUE
           /\ Missing(doc, "prompt", "git_cache_ms") => c.git_cache_ms = 1000
           /\ "prompt" \notin DOMAIN doc =>
                 /\ c.prompt_format = CompiledConfigDefault.prompt_format
                 /\ c.git_async = CompiledConfigDefault.git_async
                 /\ c.git_cache_ms = CompiledConfigDefault.git_cache_ms

\* The SourceConfig the compiler was run on.
SourceOfInput ==
    IF cfgInput.kind = "source" THEN cfgInput.source ELSE Deserialize(cfgInput.doc).source

\* The entries of a map whose value holds a denylisted fragment.
Offending(map) == {name \in DOMAIN map : Denylisted(map[name])}

\* C19: when compile fails with ForbiddenPattern, the payload of the error names
\* an alias or environment entry that matched the denylist, by its key or by its
\* value text.
C19_ErrorNamesOffendingEntry ==
    (cfgResult.tag = "Err" /\ cfgResult.error = "ForbiddenPattern") =>
        LET src == SourceOfInput
        IN \/ \E name \in Offending(src.aliases) :
                 HasFragment(cfgResult.msg, name) \/ HasFragment(cfgResult.msg, src.aliases[name])
           \/ \E name \in Offending(src.env) :
                 HasFragment(cfgResult.msg, name) \/ HasFragment(cfgResult.msg, src.env[name])

(***************************************************************************)
(* Properties of the parser.                                               *)
(***************************************************************************)

\* The character at position i of s is white space: a blank, a control character
\* from U+0009 to U+000D, U+0085, U+00A0 or U+1680.
IsSpace(s, i) ==
    SubSeq(s, i, i) \in {" ", "\t", "\n", "\r", "\f",
                        VerticalTab, NextLine, NoBreakSpace, OghamSpaceMark}

\* The tokens of a line: its maximal stretches free of white space, as pairs of
\* their first and last positions.
TokenSpans(s) ==
    {sp \in (1..Len(s)) \X (1..Len(s)) :
        /\ sp[1] <= sp[2]
        /\ \A k \in sp[1]..sp[2] : ~IsSpace(s, k)
        /\ sp[1] = 1 \/ IsSpace(s, sp[1] - 1)
        /\ sp[2] = Len(s) \/ IsSpace(s, sp[2] + 1)}

\* The tokens from left to right.
TokensOf(s) ==
    LET spans == TokenSpans(s)
        nth(n) == CHOOSE sp \in spans : Cardinality({t \in spans : t[1] < sp[1]}) = n - 1
    IN [n \in 1..Cardinality(spans) |-> SubSeq(s, nth(n)[1], nth(n)[2])]

\* The command a line stands for under an alias table, by its first token.
Classified(aliases, s) ==
    LET tokens == TokensOf(s)
    IN IF Len(tokens) = 0 THEN [tag |-> "Empty"]
       ELSE IF tokens[1] \in DOMAIN aliases
       THEN [tag |-> "Alias", name |-> tokens[1], expansion |-> aliases[tokens[1]]]
       ELSE IF tokens[1] \in Builtins
       THEN [tag |-> "Builtin", name |-> tokens[1], args |-> Tail(tokens)]
       ELSE [tag |-> "Simple", command |-> tokens[1], args |-> Tail(tokens)]

\* C3: every successful parse classifies the line by its first white-space
\* separated token: Empty for a blank line, else Alias if the token is in the alias
\* table (also when it is a builtin name), else Builtin if it is a builtin name,
\* else Simple; args are the remaining tokens in order.
C3_ClassifiedByFirstToken ==
    (last.op = "parse" /\ last.ret.tag = "Ok") =>
        last.ret.value = Classified(parserCfg.aliases, last.input)

\* A line whose command is both an alias and a builtin name was parsed as the alias.
C3_Witness ==
    /\ last.op = "parse"
    /\ last.input = "\tcd\t/tmp  -P "
    /\ "cd" \in DOMAIN parserCfg.aliases
    /\ last.ret = Ok([tag |-> "Alias", name |-> "cd", expansion |-> "pushd"])

\* C4: parse(s), clear_cache(), parse(s), neither parse failing the budget, return
\* equal commands.
C4_ParseClearParseEqual ==
    (/\ Len(log) = 2
     /\ log[1].op = "parse" /\ log[1].ret.tag = "Ok"
     /\ log[2].op = "clear_cache"
     /\ last.op = "parse" /\ last.ret.tag = "Ok"
     /\ last.input = log[1].input) =>
        last.ret.value = log[1].ret.value

\* An aliased line was parsed, the cache cleared, and the line parsed again from cold.
C4_Witness ==
    /\ Len(log) = 2
    /\ log[1].op = "parse" /\ log[1].ret.tag = "Ok" /\ log[1].input = "ll /tmp -x"
    /\ log[2].op = "clear_cache"
    /\ last.op = "parse" /\ last.ret.tag = "Ok" /\ last.input = "ll /tmp -x"
    /\ ~last.hit
    /\ last.ret.value.tag = "Alias"

\* C5: every cache entry holds, for its key, the command an uncached classification
\* of the key gives; a cache hit returns that command, and leaves the number of
\* entries as it was.
C5_CacheTransparent ==
    /\ [](/\ \A i \in 1..Len(parser.cache.entries) :
               parser.cache.entries[i].value =
                   parse_uncached(Parser_new(parserCfg), parser.cache.entries[i].key).value
          /\ (last.op = "parse" /\ last.hit) =>
               last.ret = parse_uncached(Parser_new(parserCfg), last.input))
    /\ [][(last'.op = "parse" /\ last'.hit) => cache_len(parser') = cache_len(parser)]_vars

\* A hit on a command with arguments while a second line is cached too.
C5_Witness ==
    /\ last.op = "parse" /\ last.hit
    /\ last.input = "ls -la /tmp"
    /\ last.ret.value = [tag |-> "Simple", command |-> "ls", args |-> <<"-la", "/tmp">>]
    /\ cache_len(parser) = 2

\* C6: a parse whose exact input text is cached returns Ok with the cached command
\* and never a budget error, however long the call takes.
C6_HitNeverFailsBudget ==
    (last.op = "parse" /\ last.hit) =>
        /\ last.ret.tag = "Ok"
        /\ last.ret.value = LruValue(parser.cache, last.input)

\* A cache hit in a call that took longer than the parser budget.
C6_Witness ==
    /\ last.op = "parse" /\ last.hit
    /\ last.elapsed > MAX_PARSER_MS * 1000
    /\ last.ret.tag = "Ok"

\* C7: a miss that takes longer than the parser budget returns the parser's
\* budget-exceeded error and leaves the cache exactly as it was, so the input is
\* still not cached afterwards.
C7_OverBudgetMissNotCached ==
    /\ [][(last'.op = "parse" /\ ~last'.hit /\ last'.elapsed > MAX_PARSER_MS * 1000) =>
             /\ last'.ret.tag = "Err"
             /\ last'.ret.error = "ParserBudgetExceeded"
             /\ parser'.cache = parser.cache]_vars
    /\ []((last.op = "parse" /\ last.ret.tag = "Err") => ~LruContains(parser.cache, last.input))

\* A miss failed the budget while another line was cached.
C7_Witness ==
    /\ last.op = "parse" /\ ~last.hit
    /\ last.ret.tag = "Err"
    /\ cache_len(parser) = 1
    /\ ~LruContains(parser.cache, last.input)

\* C8: the cache never holds more than 1024 entries, one per distinct text, and
\* their number is the number of distinct texts parsed successfully since the last
\* clear_cache, less those evicted: all of them up to 1024, and 1024 from then on.
C8_CacheBounded ==
    /\ cache_len(parser) <= 1024
    /\ Cardinality(LruKeys(parser.cache)) = cache_len(parser)
    /\ LruKeys(parser.cache) \subseteq Range(touched)
    /\ cache_len(parser) = Min(1024, Cardinality(Range(touched)))

\* The cache is full after more than 1024 distinct texts were parsed.
C8_Witness ==
    /\ cache_len(parser) = 1024
    /\ Cardinality(Range(touched)) > 1024

\* Among the cached texts, the one whose latest successful parse is the oldest.
LeastRecentlyTouched ==
    touched[CHOOSE i \in 1..Len(touched) :
                /\ LruContains(parser.cache, touched[i])
                /\ \A j \in 1..(i - 1) : ~LruContains(parser.cache, touched[j])]

\* C9: a successful miss inserted into a full cache removes exactly one entry, the
\* one whose most recent parse (the miss that inserted it or a later hit) is the
\* oldest; every other entry stays cached, with its command.
C9_EvictsLeastRecentlyTouched ==
    [][(/\ last'.op = "parse" /\ ~last'.hit /\ last'.ret.tag = "Ok"
        /\ cache_len(parser) = CacheCapacity) =>
          /\ LruKeys(parser'.cache) =
                (LruKeys(parser.cache) \ {LeastRecentlyTouched}) \cup {last'.input}
          /\ \A k \in LruKeys(parser.cache) \ {LeastRecentlyTouched} :
                LruValue(parser'.cache, k) = LruValue(parser.cache, k)]_vars

\* The full cache still holds the first text parsed, which was hit again, while the
\* second and third texts parsed have been evicted.
C9_Witness ==
    /\ cache_len(parser) = CacheCapacity
    /\ LruContains(parser.cache, Filler(1))
    /\ ~LruContains(parser.cache, Filler(2))
    /\ ~LruContains(parser.cache, Filler(3))
    /\ Filler(2) \in Range(touched)

(***************************************************************************)
(* Properties of the executor.                                             *)
(***************************************************************************)

\* C10: expand_alias(command) returns the expansion when command is a key of the
\* alias table and command itself otherwise.
C10_ExpandAliasOrPassThrough ==
    (execLast.op = "expand_alias") =>
        /\ execLast.command \in DOMAIN execCfg.aliases =>
              execLast.ret = execCfg.aliases[execLast.command]
        /\ execLast.command \notin DOMAIN execCfg.aliases =>
              execLast.ret = execLast.command

\* An alias name was expanded.
C10_Witness ==
    /\ execLast.op = "expand_alias"
    /\ execLast.command = "ll"
    /\ execLast.ret = "ls -la"

\* str::lines over rest, cur being the line under way and acc the lines already
\* closed: a line ends at each line feed, and a last line needs none.
RECURSIVE LinesFrom(_, _, _)
LinesFrom(rest, cur, acc) ==
    IF Len(rest) = 0 THEN (IF Len(cur) > 0 THEN Append(acc, cur) ELSE acc)
    ELSE IF Head(rest) = "\n" THEN LinesFrom(Tail(rest), "", Append(acc, cur))
    ELSE LinesFrom(Tail(rest), cur \o Head(rest), acc)

Lines(text) == LinesFrom(text, "", <<>>)

\* The line keyword NAME="VALUE" of one entry.
StatementLine(keyword, map, name) == keyword \o name \o "=\"" \o map[name] \o "\""

\* The output holds one line per entry of the map, the line of that entry, and no
\* other line.
OneLinePerEntry(output, keyword, map) ==
    /\ Len(Lines(output)) = Cardinality(DOMAIN map)
    /\ Range(Lines(output)) = {StatementLine(keyword, map, name) : name \in DOMAIN map}

\* The statements of the entries, each closed by a line feed, one after the other
\* in the order given.
RECURSIVE Joined(_, _, _)
Joined(keyword, map, order) ==
    IF Len(order) = 0 THEN ""
    ELSE Joined(keyword, map, SubSeq(order, 1, Len(order) - 1))
         \o StatementLine(keyword, map, order[Len(order)]) \o "\n"

\* The output holds one statement per entry of the map and nothing else, and its
\* lines are the lines of those statements whatever the order of the entries.
OneStatementPerEntry(output, keyword, map) ==
    /\ \E order \in Orders(DOMAIN map) : output = Joined(keyword, map, order)
    /\ Range(Lines(output)) =
          UNION {Range(Lines(StatementLine(keyword, map, name))) : name \in DOMAIN map}

\* No name and no value of the map holds a line feed.
SingleLined(map) ==
    \A name \in DOMAIN map : ~HasFragment(name, "\n") /\ ~HasFragment(map[name], "\n")

\* C11 as stated: generate_exports() emits exactly one line export NAME="VALUE"
\* per environment entry and generate_aliases() exactly one line
\* alias NAME="EXPANSION" per alias entry, and nothing else.
C11_OneLinePerEntry ==
    /\ execLast.op = "generate_exports" =>
          OneLinePerEntry(execLast.ret, "export ", execCfg.env)
    /\ execLast.op = "generate_aliases" =>
          OneLinePerEntry(execLast.ret, "alias ", execCfg.aliases)

\* C11 as amended: generate_exports() emits exactly one statement
\* export NAME="VALUE" closed by a line feed per environment entry and
\* generate_aliases() one statement alias NAME="EXPANSION" per alias entry, and
\* nothing else; a statement is one line when its name and value hold no line feed.
\* The set of lines of the output depends on the configuration only, not on the call,
\* the executor or the iteration order of the map.
C11_OneStatementPerEntry ==
    /\ execLast.op = "generate_exports" =>
          /\ OneStatementPerEntry(execLast.ret, "export ", execCfg.env)
          /\ SingleLined(execCfg.env) => OneLinePerEntry(execLast.ret, "export ", execCfg.env)
    /\ execLast.op = "generate_aliases" =>
          /\ OneStatementPerEntry(execLast.ret, "alias ", execCfg.aliases)
          /\ SingleLined(execCfg.aliases) =>
                OneLinePerEntry(execLast.ret, "alias ", execCfg.aliases)

\* The exports of an environment of two entries, one of whose values spans two
\* lines, were generated: two statements on three lines.
C11_Witness ==
    /\ execLast.op = "generate_exports"
    /\ DOMAIN execCfg.env = {"EDITOR", "MOTD"}
    /\ Len(Lines(execLast.ret)) = 3
    /\ "export EDITOR=\"vim\"" \in Range(Lines(execLast.ret))

(***************************************************************************)
(* Properties of the prompt renderer and the git cache.                    *)
(***************************************************************************)

\* C12: render fails with the prompt budget-exceeded error exactly when its elapsed
\* time exceeds the prompt budget of the configuration the prompt was built from,
\* and the error carries that configured budget and the actual milliseconds.
C12_RenderFailsOverConfiguredBudget ==
    promptLast.op = "render" =>
        /\ (promptLast.ret.tag = "Err") <=>
              (promptLast.elapsed > promptCfg.prompt_budget_ms * 1000)
        /\ promptLast.ret.tag = "Err" =>
              /\ promptLast.ret.error = "PromptBudgetExceeded"
              /\ promptLast.ret.budget_ms = promptCfg.prompt_budget_ms
              /\ promptLast.ret.actual_ms = promptLast.elapsed \div 1000

\* What the git segment shows for the arguments of an update, or for no update.
GitSegmentFor(update) ==
    IF update.tag = "None" THEN ""
    ELSE IF update.value.branch.tag = "None" THEN ""
    ELSE IF update.value.dirty THEN "(" \o update.value.branch.value \o "*)"
    ELSE "(" \o update.value.branch.value \o ")"

\* The prompt of the segments, gitText standing where the git segments are.
RECURSIVE PromptWithGit(_, _, _, _)
PromptWithGit(self, env, segments, gitText) ==
    IF Len(segments) = 0 THEN ""
    ELSE PromptWithGit(self, env, SubSeq(segments, 1, Len(segments) - 1), gitText)
         \o (IF segments[Len(segments)].tag = "Git" THEN gitText
             ELSE SegmentText(self, env, segments[Len(segments)]))

\* C14: after any sequence of update_git_cache and invalidate_git_cache calls the
\* git segment of a rendered prompt is given by the arguments of the most recent
\* update alone: (branch), (branch*) when dirty, nothing when there was no update
\* or the branch was None; and invalidate_git_cache leaves what render returns as
\* it was.
C14_GitSegmentFromLatestUpdate ==
    /\ []((promptLast.op = "render" /\ promptLast.ret.tag = "Ok") =>
             promptLast.ret.value =
                 PromptWithGit(prompt, procEnv, prompt.segments, GitSegmentFor(gitUpdate)))
    /\ [][promptLast'.op = "invalidate_git_cache" =>
             \A elapsed \in RenderElapsed :
                 render(prompt', procEnv', elapsed) = render(prompt, procEnv, elapsed)]_vars

\* A dirty branch was stored, the cache invalidated, and the prompt rendered with
\* the branch and its marker.
C14_Witness ==
    /\ promptLast.op = "render"
    /\ promptCfg.prompt_format = "{git}{cwd}"
    /\ gitUpdate = Some([branch |-> Some("feature-branch"), dirty |-> TRUE])
    /\ gitInvalidated
    /\ procEnv.PWD = Some("/tmp")
    /\ promptLast.ret = Ok("(feature-branch*)/tmp")

\* C15: the validity flag is false before the first update, true after every
\* update_git_cache and false after invalidate, so that is_valid() holds exactly
\* when an update has happened and no invalidate since the latest one; invalidate
\* changes the flag only, not the stored branch and dirty values.
C15_ValidSinceLatestUpdate ==
    /\ [](is_valid(prompt.git_cache) <=> (gitUpdate.tag = "Some" /\ ~gitInvalidated))
    /\ [][/\ promptLast'.op = "update_git_cache" => is_valid(prompt'.git_cache)
          /\ promptLast'.op = "invalidate_git_cache" =>
                /\ ~is_valid(prompt'.git_cache)
                /\ prompt'.git_cache.branch = prompt.git_cache.branch
                /\ prompt'.git_cache.dirty = prompt.git_cache.dirty
                /\ prompt' = [prompt EXCEPT !.git_cache.valid = FALSE]]_vars

\* An invalidated cache that still holds the dirty branch of the latest update.
C15_Witness ==
    /\ promptLast.op = "invalidate_git_cache"
    /\ ~is_valid(prompt.git_cache)
    /\ prompt.git_cache.branch = Some("main")
    /\ prompt.git_cache.dirty
    /\ gitUpdate = Some([branch |-> Some("main"), dirty |-> TRUE])

\* C17: in every state of the git cache, never populated, valid or invalidated, a
\* render call can be made and returns, with its prompt or with the prompt
\* budget error, without an update_git_cache step before it; it returns the stored
\* git segment, stale or empty, and leaves the cache as it found it.
C17_RenderNeverWaits ==
    /\ ENABLED (\E elapsed \in RenderElapsed : RenderCall(elapsed))
    /\ promptLast.op = "render" =>
          \/ /\ promptLast.ret.tag = "Ok"
             /\ promptLast.ret.value =
                   PromptWithGit(prompt, procEnv, prompt.segments,
                                 GitCache_render(prompt.git_cache))
          \/ /\ promptLast.ret.tag = "Err"
             /\ promptLast.ret.error = "PromptBudgetExceeded"

\* A render returned the stale branch of an invalidated cache.
C17_Witness ==
    /\ promptLast.op = "render"
    /\ ~is_valid(prompt.git_cache)
    /\ prompt.git_cache.branch = Some("main")
    /\ promptCfg.prompt_format = "{git}"
    /\ promptLast.ret = Ok("(main)")

\* C18: successful renders of the same prompt with no update_git_cache and no
\* change of PWD or working directory between them return equal strings.
C18_RenderDeterministic ==
    (promptLast.op = "render" /\ promptLast.ret.tag = "Ok") =>
        /\ rendered.tag = "Some"
        /\ promptLast.ret.value = rendered.value

\* A second prompt was rendered after an update, with an invalidate since the
\* update, for a format that shows the working directory and the git status.
C18_Witness ==
    /\ promptLast.op = "render" /\ promptLast.ret.tag = "Ok"
    /\ rendered.tag = "Some" /\ rendered.again
    /\ gitUpdate = Some([branch |-> Some("main"), dirty |-> FALSE])
    /\ gitInvalidated
    /\ promptCfg.prompt_format = "{user}@{host} {cwd} {git} {char} "

\* The text of the format string a segment stands for.
SourceText(segment) ==
    IF segment.tag = "Literal" THEN segment.text
    ELSE IF segment.tag = "Custom" THEN "{" \o segment.name \o "}"
    ELSE IF segment.tag = "User" THEN "{user}"
    ELSE IF segment.tag = "Host" THEN "{host}"
    ELSE IF segment.tag = "Cwd" THEN "{cwd}"
    ELSE IF segment.tag = "Git" THEN "{git}"
    ELSE "{char}"

RECURSIVE SourceOf(_)
SourceOf(segments) ==
    IF Len(segments) = 0 THEN ""
    ELSE SourceOf(SubSeq(segments, 1, Len(segments) - 1)) \o SourceText(segments[Len(segments)])

\* The positions of a character in a text.
Positions(text, ch) == {i \in 1..Len(text) : SubSeq(text, i, i) = ch}

\* The format string up to its unclosed brace: an opening brace with no closing
\* brace after it starts a placeholder that never ends, and so does not count.
ClosedPart(format) ==
    LET open == {i \in Positions(format, "{") : \A j \in Positions(format, "}") : j < i}
    IN IF open = {} THEN format
       ELSE SubSeq(format, 1, (CHOOSE i \in open : \A k \in open : i <= k) - 1)

\* C20: the segments follow the format string from left to right: a keyword in
\* braces is its typed segment, any other closed placeholder is Custom(name), and
\* the text outside braces is Literal segments that end at the next opening brace
\* or at the end; no Literal is empty and no two Literals are adjacent; the number
\* of segments is fixed at construction.
C20_SegmentsFollowFormat ==
    /\ [](LET segs == prompt.segments
          IN /\ SourceOf(segs) = ClosedPart(promptCfg.prompt_format)
             /\ \A i \in 1..Len(segs) :
                   /\ segs[i].tag \in {"Literal", "User", "Host", "Cwd", "Git", "Char", "Custom"}
                   /\ segs[i].tag = "Literal" =>
                         /\ Len(segs[i].text) > 0
                         /\ Positions(segs[i].text, "{") = {}
                         /\ i < Len(segs) => segs[i + 1].tag # "Literal"
                   /\ segs[i].tag = "Custom" =>
                         /\ segs[i].name \notin {"user", "host", "cwd", "git", "char"}
                         /\ Positions(segs[i].name, "}") = {}
             /\ segment_count(prompt) = Len(segs))
    /\ [][segment_count(prompt') = segment_count(prompt)]_vars

\* A format with an unknown placeholder, an empty one and a keyword side by side
\* was compiled to five segments, and the prompt rendered and updated since.
C20_Witness ==
    /\ promptCfg.prompt_format = "[{time}] {}{char}"
    /\ prompt.segments = <<Literal("["), Custom("time"), Literal("] "), Custom(""), Char>>
    /\ promptLast.op = "render"
    /\ gitUpdate.tag = "Some"

(***************************************************************************)
(* Properties of the pipeline as a whole.                                  *)
(***************************************************************************)

\* The result is the budget error of the given kind, carrying the budget and the
\* whole milliseconds of the elapsed time, and nothing of a successful result.
OverrunOf(ret, kind, budget_ms, elapsed) ==
    /\ ret.tag = "Err"
    /\ ret.error = kind
    /\ ret.budget_ms = budget_ms
    /\ ret.actual_ms * 1000 <= elapsed /\ elapsed < (ret.actual_ms + 1) * 1000
    /\ "value" \notin DOMAIN ret

\* C13: a timed stage call whose elapsed time exceeds the stage's budget returns
\* that stage's own error with (budget_ms, actual_ms) and no successful result:
\* Pzsh::new StartupBudgetExceeded, parse on a miss ParserBudgetExceeded,
\* initialize ExecutorBudgetExceeded, render PromptBudgetExceeded; and a stage
\* that fails never fails with the error of another stage.
C13_OverrunGivesOwnError ==
    /\ shellLast.op = "new" =>
          /\ shellLast.elapsed > 10 * 1000 =>
                OverrunOf(shellLast.ret, "StartupBudgetExceeded", 10, shellLast.elapsed)
          /\ shellLast.ret.tag = "Err" => shellLast.ret.error = "StartupBudgetExceeded"
    /\ last.op = "parse" =>
          /\ (~last.hit /\ last.elapsed > 2 * 1000) =>
                OverrunOf(last.ret, "ParserBudgetExceeded", 2, last.elapsed)
          /\ last.ret.tag = "Err" => last.ret.error = "ParserBudgetExceeded"
    /\ execLast.op = "initialize" =>
          /\ execLast.elapsed > 2 * 1000 =>
                OverrunOf(execLast.ret, "ExecutorBudgetExceeded", 2, execLast.elapsed)
          /\ execLast.ret.tag = "Err" => execLast.ret.error = "ExecutorBudgetExceeded"
    /\ promptLast.op = "render" =>
          /\ promptLast.elapsed > 2 * 1000 =>
                OverrunOf(promptLast.ret, "PromptBudgetExceeded", 2, promptLast.elapsed)
          /\ promptLast.ret.tag = "Err" => promptLast.ret.error = "PromptBudgetExceeded"

\* All four stages have overrun their budgets, each in its latest call.
C13_Witness ==
    /\ shellLast.op = "new" /\ shellLast.elapsed = 12500
    /\ shellLast.ret = [tag |-> "Err", error |-> "StartupBudgetExceeded",
                        budget_ms |-> 10, actual_ms |-> 12]
    /\ last.op = "parse" /\ last.ret.tag = "Err"
    /\ execLast.op = "initialize" /\ execLast.ret.tag = "Err"
    /\ promptLast.op = "render" /\ promptLast.ret.tag = "Err"

\* C16: the compiled configuration is frozen: no call on the parser, the executor,
\* the prompt, the shell instance or the configuration's accessors changes its alias
\* map, its env map or any other field; the components keep the maps they were
\* built with, and the contents of FrozenEnv never change after construction.
C16_ConfigFrozen ==
    /\ [](/\ parserCfg = cfgResult.config
          /\ execCfg = cfgResult.config
          /\ promptCfg = cfgResult.config
          /\ cfgResult.config.aliases = cfgInput.source.aliases
          /\ cfgResult.config.env = cfgInput.source.env
          /\ parser.aliases = cfgResult.config.aliases
          /\ executor.aliases = cfgResult.config.aliases
          /\ executor.env.vars = cfgResult.config.env
          /\ (shellLast.op = "new" /\ shellLast.ret.tag = "Ok") =>
                /\ shellLast.ret.value.config = cfgResult.config
                /\ shellLast.ret.value.executor.env.vars = cfgResult.config.env)
    /\ [][/\ cfgResult' = cfgResult
          /\ executor'.env = executor.env
          /\ executor'.aliases = executor.aliases
          /\ parser'.aliases = parser.aliases]_vars

\* Every component has been called, the executor initialized and the parser's
\* cache filled, and the executor still serves the environment of the configuration.
C16_Witness ==
    /\ executor.initialized
    /\ execLast.op = "get_env" /\ execLast.key = "EDITOR" /\ execLast.ret = Some("vim")
    /\ last.op = "parse" /\ cache_len(parser) = 1
    /\ promptLast.op = "render"
    /\ gitUpdate.tag = "Some"
    /\ shellLast.op = "new" /\ shellLast.ret.tag = "Ok"


(***************************************************************************)
(* Properties of the prompt renderer: placeholders and identity.           *)
(***************************************************************************)

Keywords == {"user", "host", "cwd", "git", "char"}

\* The format holds none of the five keywords in braces.
KeywordFree(format) == \A kw \in Keywords : ~HasFragment(format, "{" \o kw \o "}")

\* Every opening brace of the format has a closing brace somewhere after it.
EveryBraceClosed(format) ==
    \A i \in Positions(format, "{") : \E j \in Positions(format, "}") : j > i

\* C21: for a format string that holds none of the five keywords in braces and in
\* which every opening brace is closed later, a render within the budget returns
\* the format string itself, character for character: an unknown placeholder, the
\* empty one included, comes back as it was written.
C21_UnknownPlaceholdersVerbatim ==
    (/\ promptLast.op = "render"
     /\ promptLast.elapsed <= 2 * 1000
     /\ KeywordFree(promptCfg.prompt_format)
     /\ EveryBraceClosed(promptCfg.prompt_format)) =>
        promptLast.ret = Ok(promptCfg.prompt_format)

\* A format with an unknown placeholder, the empty placeholder, a keyword in the
\* wrong case and a closing brace of its own was rendered as written, after an
\* update of the git cache.
C21_Witness ==
    /\ promptLast.op = "render"
    /\ promptCfg.prompt_format = "[{time}] {} {Git}}"
    /\ prompt.segments = <<Literal("["), Custom("time"), Literal("] "), Custom(""),
                           Literal(" "), Custom("Git"), Literal("}")>>
    /\ gitUpdate = Some([branch |-> Some("main"), dirty |-> TRUE])
    /\ promptLast.ret = Ok("[{time}] {} {Git}}")


\* The directory a render shows in a process with the environment env.
ShownCwd(env) ==
    IF env.PWD.tag = "Some" THEN env.PWD.value
    ELSE IF env.current_dir.tag = "Some" THEN env.current_dir.value
    ELSE "~"

\* The prompt of the segments with texts[k] standing where the segments of kind k
\* are, and the literals and unknown placeholders as they were written.
RECURSIVE FilledIn(_, _)
FilledIn(segments, texts) ==
    IF Len(segments) = 0 THEN ""
    ELSE LET segment == segments[Len(segments)]
         IN FilledIn(SubSeq(segments, 1, Len(segments) - 1), texts)
            \o (IF segment.tag \in {"Literal", "Custom"} THEN SourceText(segment)
                ELSE texts[segment.tag])

\* C22: the user and the host are resolved when the prompt is constructed, USER
\* defaulting to "user" and the host name to "localhost", and no later step
\* changes them, a change of USER or of the host name included; every rendered
\* prompt shows that user and host, the glyph # if and only if that user is root,
\* and for the working directory what the process has when the render is called:
\* PWD, else the working directory, else "~".
C22_IdentityFixedCwdLive ==
    /\ prompt.user = (IF procEnv.USER.tag = "Some" THEN procEnv.USER.value ELSE "user")
    /\ prompt.host = (IF procEnv.hostname.tag = "Some" THEN procEnv.hostname.value
                      ELSE "localhost")
    /\ [][prompt'.user = prompt.user /\ prompt'.host = prompt.host]_vars
    /\ []((promptLast.op = "render" /\ promptLast.ret.tag = "Ok") =>
             /\ promptLast.env = procEnv
             /\ promptLast.ret.value =
                   FilledIn(prompt.segments,
                            [User |-> prompt.user,
                             Host |-> prompt.host,
                             Cwd |-> ShownCwd(procEnv),
                             Git |-> GitSegmentFor(gitUpdate),
                             Char |-> IF prompt.user = "root" THEN "#" ELSE "$"]))

\* A prompt constructed by root on box was rendered in a process whose USER is
\* alice by now and whose PWD is unset: it shows root, the glyph # and the working
\* directory.
C22_Witness ==
    /\ promptLast.op = "render"
    /\ prompt.user = "root"
    /\ procEnv.USER = Some("alice")
    /\ procEnv.PWD = None
    /\ promptCfg.prompt_format = "{user}@{host} {cwd} {git} {char}"
    /\ promptLast.ret = Ok("root@box /home/alice  #")


\* C26: when the format string holds an opening brace with no closing brace after
\* it, everything from the first such brace to the end is dropped: the segments
\* are those of the text before it, and a render returns what it returns for
\* that text alone.  A closing brace outside a placeholder is literal text: a
\* format with no opening brace before the dropped part is one Literal.  An
\* opening brace inside a placeholder is part of its name: the placeholder at the
\* start of a format runs to the first closing brace.
C26_UnclosedBraceDropped ==
    LET format == promptCfg.prompt_format
        kept == ClosedPart(format)
        before == [prompt EXCEPT !.segments = parse_format(kept)]
        closings == Positions(kept, "}")
    IN /\ prompt.segments = before.segments
       /\ \A elapsed \in RenderElapsed :
             render(prompt, procEnv, elapsed) = render(before, procEnv, elapsed)
       /\ promptLast.op = "render" =>
             promptLast.ret = render(before, procEnv, promptLast.elapsed)
       /\ Positions(kept, "{") = {} =>
             prompt.segments = IF kept = "" THEN <<>> ELSE <<Literal(kept)>>
       /\ (1 \in Positions(kept, "{")) =>
             /\ prompt.segments[1].tag # "Literal"
             /\ SourceText(prompt.segments[1]) =
                   SubSeq(kept, 1, CHOOSE j \in closings : \A k \in closings : j <= k)

\* A format with a keyword, literal text and a placeholder left open was compiled
\* to the two segments before the open brace and rendered without the rest.
C26_Witness ==
    /\ promptCfg.prompt_format = "{user}> {gi"
    /\ prompt.segments = <<User, Literal("> ")>>
    /\ promptLast.op = "render"
    /\ promptLast.ret = Ok("alice> ")


(***************************************************************************)
(* Properties of the updater and the renderer side by side.                *)
(***************************************************************************)

\* C27: with one updater inside update_git_cache store by store and one renderer,
\* the prompt borrowed exclusively by the update, the branch and the dirty flag a
\* render finds in the cache are the initial pair (None, false) or together the
\* arguments of one update_git_cache call, the most recent one; the branch of one
\* update never stands with the dirty flag of another, and the rendered git
\* segment is that of this one pair.
C27_NoTornGitStatus ==
    promptLast.op = "render" =>
        LET seen == [branch |-> prompt.git_cache.branch, dirty |-> prompt.git_cache.dirty]
        IN /\ seen = IF gitUpdate = None THEN [branch |-> None, dirty |-> FALSE]
                     ELSE gitUpdate.value
           /\ promptLast.ret.tag = "Ok" =>
                 promptLast.ret.value =
                     PromptWithGit(prompt, procEnv, prompt.segments, GitSegmentFor(gitUpdate))

\* The updater stored a clean feature branch over a dirty main, and the render
\* after it shows the feature branch without the marker.
C27_Witness ==
    /\ promptLast.op = "render"
    /\ updater.pc = "idle"
    /\ gitUpdate = Some([branch |-> Some("feature-branch"), dirty |-> FALSE])
    /\ prompt.git_cache.valid
    /\ promptCfg.prompt_format = "{git}"
    /\ promptLast.ret = Ok("(feature-branch)")


(***************************************************************************)
(* Properties of the executor: the initialization flag and expand_alias.   *)
(***************************************************************************)

\* C25: is_initialized() is false after construction and stays false until the
\* first initialize call; it is true after every initialize call, one that
\* returned ExecutorBudgetExceeded included; no call makes it false again;
\* initialize can be called again at any time, and no call changes the
\* environment or the alias table.
C25_InitializedFlag ==
    /\ ~is_initialized(executor)
    /\ [](ENABLED (\E elapsed \in ElapsedChoices : InitializeCall(elapsed)))
    /\ [][/\ execLast'.op = "initialize" =>
                /\ is_initialized(executor')
                /\ execLast'.ret \in {OkUnit, ExecutorBudgetExceeded(2, execLast'.elapsed \div 1000)}
          /\ execLast'.op # "initialize" =>
                is_initialized(executor') = is_initialized(executor)
          /\ is_initialized(executor) => is_initialized(executor')
          /\ executor'.env = executor.env
          /\ executor'.aliases = executor.aliases]_vars

\* An initialize call returned the budget error and the executor is initialized.
C25_Witness ==
    /\ execLast.op = "initialize"
    /\ execLast.elapsed = 2001
    /\ execLast.ret = ExecutorBudgetExceeded(2, 2)
    /\ is_initialized(executor)
    /\ executor.aliases = [ll |-> "ls -la", gs |-> "git status"]


\* The values of a map.
Values(map) == {map[k] : k \in DOMAIN map}

\* C30: expand_alias looks the whole argument up once.  An argument that is no
\* alias name comes back unchanged, also when its first word is one; an alias
\* name comes back as its expansion and no further, also when the expansion is an
\* alias name itself; the call can be made and returns for every table, the
\* self-referential and the cyclic ones included.
C30_ExpandAliasOneLookup ==
    /\ \A command \in ExecCommands : ENABLED ExpandAliasCall(command)
    /\ execLast.op = "expand_alias" =>
          LET command == execLast.command
              words == split_whitespace(command)
              aliases == executor.aliases
          IN /\ execLast.ret \in {command} \cup Values(aliases)
             /\ (/\ Len(words) > 0
                 /\ words[1] \in DOMAIN aliases
                 /\ command # words[1]) => execLast.ret = command
             /\ (/\ command \in DOMAIN aliases
                 /\ aliases[command] \in DOMAIN aliases) =>
                    /\ execLast.ret = aliases[command]
                    /\ expand_alias(executor, execLast.ret) = aliases[aliases[command]]

\* With a -> b and b -> c the alias a was expanded to b, which is an alias name
\* with another expansion.
C30_Witness ==
    /\ execLast.op = "expand_alias"
    /\ executor.aliases = [a |-> "b", b |-> "c"]
    /\ execLast.command = "a"
    /\ execLast.ret = "b"
    /\ expand_alias(executor, "b") = "c"


(***************************************************************************)
(* Properties of the parser: cache keys and aliased lines.                 *)
(***************************************************************************)

\* C28: the cache is keyed by the text handed to parse, as it was handed over:
\* its keys are the texts parsed successfully since the last clear_cache, blank
\* ones included, each with the command parse returned for it; a successful
\* parse of a text not yet cached adds one entry, a blank text like any other;
\* texts with the same tokens, whatever the white space around and between them,
\* are entries of their own and hold equal commands.
C28_CacheKeyedByRawText ==
    /\ [](/\ LruKeys(parser.cache) = Range(touched)
          /\ cache_len(parser) = Cardinality(Range(touched))
          /\ (last.op = "parse" /\ last.ret.tag = "Ok") =>
                /\ LruContains(parser.cache, last.input)
                /\ LruValue(parser.cache, last.input) = last.ret.value
          /\ \A key \in LruKeys(parser.cache) :
                /\ TokensOf(key) = <<>> => LruValue(parser.cache, key) = Empty
                /\ \A other \in LruKeys(parser.cache) :
                      TokensOf(key) = TokensOf(other) =>
                         LruValue(parser.cache, key) = LruValue(parser.cache, other))
    /\ [][(last'.op = "parse" /\ ~last'.hit /\ last'.ret.tag = "Ok") =>
             cache_len(parser') = cache_len(parser) + 1]_vars

\* The lines "ls" and " ls " were parsed and are two entries with one command.
C28_Witness ==
    /\ last.op = "parse" /\ last.input = " ls " /\ ~last.hit
    /\ cache_len(parser) = 2
    /\ LruKeys(parser.cache) = {"ls", " ls "}
    /\ LruValue(parser.cache, "ls") = Simple("ls", <<>>)
    /\ LruValue(parser.cache, " ls ") = Simple("ls", <<>>)

\* C29: a line whose command token is an alias is parsed to the alias and its
\* expansion and nothing else: the result has no field for the remaining tokens
\* and equals the result for the alias name alone and for every other line with
\* that command token.
C29_AliasDropsArguments ==
    (/\ last.op = "parse"
     /\ last.ret.tag = "Ok"
     /\ TokensOf(last.input) # <<>>
     /\ TokensOf(last.input)[1] \in DOMAIN parserCfg.aliases) =>
        LET name == TokensOf(last.input)[1]
        IN /\ last.ret.value.tag = "Alias"
           /\ DOMAIN last.ret.value = {"tag", "name", "expansion"}
           /\ last.ret.value.name = name
           /\ last.ret.value.expansion = parserCfg.aliases[name]
           /\ parse(parser, name, 0).ret = last.ret
           /\ \A other \in ParseInputs :
                 (TokensOf(other) # <<>> /\ TokensOf(other)[1] = name) =>
                    parse(parser, other, 0).ret = last.ret

\* The alias with arguments was parsed after the alias alone, and both results are
\* in the cache, equal.
C29_Witness ==
    /\ last.op = "parse" /\ last.input = "ll /tmp -x" /\ ~last.hit
    /\ last.ret = Ok(Alias("ll", "ls -la"))
    /\ LruContains(parser.cache, "ll")
    /\ LruValue(parser.cache, "ll") = LruValue(parser.cache, "ll /tmp -x")


(***************************************************************************)
(* Properties of the budget checks.                                        *)
(***************************************************************************)

\* What a timed call that took `elapsed` microseconds against a budget of
\* budget_ms milliseconds may return: no error up to the budget, the budget
\* itself included; an error only over it, with the actual milliseconds cut to a
\* whole number that is at least the budget and is the budget while the overage
\* is under one millisecond.
WithinStrictBudget(ret, budget_ms, elapsed) ==
    /\ elapsed <= budget_ms * 1000 => ret.tag = "Ok"
    /\ ret.tag = "Err" =>
          /\ elapsed > budget_ms * 1000
          /\ ret.budget_ms = budget_ms
          /\ ret.actual_ms >= ret.budget_ms
          /\ ret.actual_ms * 1000 <= elapsed
          /\ elapsed < (ret.actual_ms + 1) * 1000
          /\ elapsed - budget_ms * 1000 < 1000 => ret.actual_ms = ret.budget_ms

\* C24: in each of the four timed stages the comparison with the budget is
\* strict: a call fails only when it took more than the budget, and a call that
\* took exactly the budget succeeds; every budget error carries the budget and the
\* actual milliseconds cut to a whole number, which is at least the budget and
\* equals it while the overage is less than one millisecond.
C24_StrictBudgetTruncatedActual ==
    /\ shellLast.op = "new" => WithinStrictBudget(shellLast.ret, 10, shellLast.elapsed)
    /\ last.op = "parse" => WithinStrictBudget(last.ret, 2, last.elapsed)
    /\ execLast.op = "initialize" => WithinStrictBudget(execLast.ret, 2, execLast.elapsed)
    /\ promptLast.op = "render" => WithinStrictBudget(promptLast.ret, 2, promptLast.elapsed)

\* A render that took exactly its budget succeeded, and a parse, an initialize
\* and a construction that took less than a millisecond more than theirs failed
\* with actual milliseconds equal to the budget.
C24_Witness ==
    /\ promptLast.op = "render" /\ promptLast.elapsed = 2000 /\ promptLast.ret.tag = "Ok"
    /\ last.op = "parse" /\ last.elapsed = 2001
    /\ last.ret = ParserBudgetExceeded(2, 2)
    /\ execLast.op = "initialize" /\ execLast.elapsed = 2999
    /\ execLast.ret = ExecutorBudgetExceeded(2, 2)
    /\ shellLast.op = "new" /\ shellLast.elapsed = 10999
    /\ shellLast.ret = StartupBudgetExceeded(10, 10)


(***************************************************************************)
(* Properties of the plugin manager.                                       *)
(***************************************************************************)

\* The dependencies of a plugin that are not Loaded.
Unloaded(self, name) ==
    LET deps == self.plugins[name].dependencies
    IN {deps[i] : i \in {j \in 1..Len(deps) : state(self, deps[j]) # Some("Loaded")}}

\* What a call load(name), recorded in call, did to the manager.
LoadStep(before, after, call) ==
    LET name == call.name
        known == name \in DOMAIN before.plugins
        loaded == state(before, name) = Some("Loaded")
    IN /\ ~known => (call.ret = NotFound(name) /\ after = before)
       /\ loaded => (call.ret.tag = "Ok" /\ after = before)
       /\ (known /\ ~loaded /\ Unloaded(before, name) # {}) =>
             /\ call.ret.tag = "Err"
             /\ call.ret.error = "DependencyNotMet"
             /\ call.ret.name \in Unloaded(before, name)
             /\ after = before
       /\ (known /\ ~loaded /\ Unloaded(before, name) = {}) =>
             /\ after.states[name] \in {"Loaded", "Failed"}
             /\ after.states[name] = "Loaded" <=> call.ret.tag = "Ok"
             /\ after.states[name] = "Failed" <=>
                   (call.init_ret.tag = "Err" \/ call.elapsed > 5 * 1000)
             /\ call.ret.tag = "Err" => call.ret.error \in {"LoadFailed", "BudgetExceeded"}
             /\ after.plugins = before.plugins
             /\ \A other \in DOMAIN before.states \ {name} :
                   after.states[other] = before.states[other]

\* C23: a plugin is Registered when it is registered.  load of a name that is
\* not registered returns NotFound and changes nothing; load of a plugin that is
\* Loaded returns Ok and changes nothing; load of a plugin that is not Loaded and
\* has a dependency that is not Loaded returns DependencyNotMet and changes
\* nothing; every other load leaves the plugin Loaded, returning Ok, or Failed,
\* when its init returned an error or the call took longer than the budget, and
\* leaves the other plugins as they were.  Between calls no plugin is in state
\* Loading, and loaded_count() is the number of registered plugins whose state is
\* Loaded.
C23_LoadStateMachine ==
    /\ [](/\ DOMAIN manager.states = DOMAIN manager.plugins
          /\ \A name \in DOMAIN manager.plugins :
                state(manager, name) \in {Some("Registered"), Some("Loaded"), Some("Failed")}
          /\ pluginLast.op = "new" =>
                \A name \in DOMAIN manager.plugins : state(manager, name) = Some("Registered")
          /\ loaded_count(manager) =
                Cardinality({name \in DOMAIN manager.plugins :
                                state(manager, name) = Some("Loaded")}))
    /\ [][/\ pluginLast'.op = "register" =>
                state(manager', pluginLast'.name) = Some("Registered")
          /\ pluginLast'.op = "load" => LoadStep(manager, manager', pluginLast')]_vars

\* The plugin test failed to load, git and docker are Loaded, and the load of
\* extra, which depends on docker and on test, was refused for test.
C23_Witness ==
    /\ pluginLast.op = "load"
    /\ pluginLast.name = "extra"
    /\ pluginLast.ret = DependencyNotMet("test")
    /\ state(manager, "extra") = Some("Registered")
    /\ state(manager, "test") = Some("Failed")
    /\ state(manager, "git") = Some("Loaded")
    /\ state(manager, "docker") = Some("Loaded")
    /\ loaded_count(manager) = 2

=============================================================================
